---- MODULE Spec2Model ----
(***************************************************************************)
(* GameJobScraper: the posting store (db/repository.py over the schema of  *)
(* db/models.py), the scoring orchestrator (scoring/scorer_manager.py) and *)
(* the notification dispatcher (db/notifications/notification_manager.py). *)
(*                                                                         *)
(* Conventions.  A Python str is a sequence of one-character strings, so   *)
(* that strip/split/lower and substring tests are computed, not assumed.   *)
(* SQL NULL and Python None are the value NULL.  A row id is the row's     *)
(* position in the table: ids are AUTOINCREMENT from 1 and no statement of *)
(* the repository deletes a row.  A float score is a fixed-point integer   *)
(* in units of 1/ONE.                                                      *)
(***************************************************************************)
EXTENDS Integers, Sequences, FiniteSets, TLC

VARIABLES
    jobs,           \* table jobs: sequence of rows, id = index
    notifications,  \* table notifications: sequence of receipts
    scrape_runs,    \* table scrape_runs: sequence of audit rows
    clock,          \* wall clock read by datetime.now()
    ret,            \* what the last completed call returned / observed
    prod,           \* the two producers of the interleaved upsert
    ai_calls,       \* number of AIScorer.score_job invocations so far
    delivered,      \* (job id, channel) -> messages the adapter delivered
    disp,           \* the dispatcher's position inside send_all
    batch,          \* score_batch's position in its list of postings
    pipe            \* the scheduler's jobs: each one's position in _run_pipeline

vars == <<jobs, notifications, scrape_runs, clock, ret, prod, ai_calls, delivered,
          disp, batch, pipe>>

\* NULL / None, one per kind of value: of a column held as an atom, of a str
\* held as a character sequence, and of a REAL (a number x is held as <<x>>).
NULL == "NULL"
NoText == <<"NULL">>
NoScore == <<>>

\* ------------------------------------------------------------------ bounds
MaxClock == 4

\* ------------------------------------------------------- str as Seq(char)
RECURSIVE lstrip(_)
lstrip(s) == IF s # <<>> /\ Head(s) = " " THEN lstrip(Tail(s)) ELSE s

RECURSIVE rstrip(_, _)
rstrip(s, c) ==
    IF s # <<>> /\ s[Len(s)] = c THEN rstrip(SubSeq(s, 1, Len(s) - 1), c) ELSE s

strip(s) == rstrip(lstrip(s), " ")

\* s.split(c)[0]: the part of s before the first c (all of s if there is none)
RECURSIVE split0(_, _)
split0(s, c) ==
    IF s = <<>> \/ Head(s) = c THEN <<>> ELSE <<Head(s)>> \o split0(Tail(s), c)

UpperCase == <<"A", "B", "C", "D", "E", "F", "G", "H", "I", "J", "K", "L", "M", "N", "O", "P", "Q", "R", "S", "T", "U", "V", "W", "X", "Y", "Z">>
LowerCase == <<"a", "b", "c", "d", "e", "f", "g", "h", "i", "j", "k", "l", "m", "n", "o", "p", "q", "r", "s", "t", "u", "v", "w", "x", "y", "z">>

lower_char(c) ==
    IF \E i \in 1..Len(UpperCase) : UpperCase[i] = c
    THEN LowerCase[CHOOSE i \in 1..Len(UpperCase) : UpperCase[i] = c]
    ELSE c

RECURSIVE lower(_)
lower(s) == IF s = <<>> THEN <<>> ELSE <<lower_char(Head(s))>> \o lower(Tail(s))

IsSpace(c) == c = " "
IsWord(c) == c \notin {" ", "/", "?", "#", "!", ".", ",", "-", "|", ":"}

\* re.sub(r"[^\w\s]", "", text)
RECURSIVE drop_punct(_)
drop_punct(s) ==
    IF s = <<>> THEN <<>>
    ELSE IF IsWord(Head(s)) \/ IsSpace(Head(s))
         THEN <<Head(s)>> \o drop_punct(Tail(s))
         ELSE drop_punct(Tail(s))

\* re.sub(r"\s+", " ", text)
RECURSIVE collapse_ws(_)
collapse_ws(s) ==
    IF s = <<>> THEN <<>>
    ELSE IF IsSpace(Head(s)) /\ Len(s) > 1 /\ IsSpace(s[2])
         THEN collapse_ws(Tail(s))
         ELSE <<Head(s)>> \o collapse_ws(Tail(s))

normalize_text(text) ==
    IF text = NoText \/ text = <<>> THEN <<>>
    ELSE collapse_ws(drop_punct(strip(lower(text))))

\* SHA-256 is taken to be collision free: the digest is the tagged preimage.
hash_string(text) == <<"sha256">> \o text

title_company_hash(title, company) ==
    hash_string(normalize_text(title) \o <<"|">> \o normalize_text(company))

url_hash(url) ==
    hash_string(lower(split0(split0(rstrip(strip(url), "/"), "?"), "#")))

\* ------------------------------------------------------------ the postings
\* ScrapedJob records the producers hand to the store.  date_scraped is set
\* when the record is built, so it is added by Scraped below.
U_x1 == <<"x", "/", "1">>
U_X1s == <<"X", "/", "1", "/">>
U_x1q == <<"x", "/", "1", "?", "r">>
U_x2 == <<"x", "/", "2">>
U_x3 == <<"x", "/", "3">>

T_LevelDesigner == <<"L", "e", "v", "e", "l", " ", "D", "e", "s", "i", "g", "n", "e", "r">>
T_level_designer == <<"l", "e", "v", "e", "l", " ", "d", "e", "s", "i", "g", "n", "e", "r">>
T_GameDesigner == <<"G", "a", "m", "e", " ", "D", "e", "s", "i", "g", "n", "e", "r">>
T_Intern == <<"I", "n", "t", "e", "r", "n">>
S_Acme == <<"A", "c", "m", "e">>
S_ACME == <<"A", "C", "M", "E", "!">>
S_Beta == <<"B", "e", "t", "a">>
S_Paris == <<"P", "a", "r", "i", "s">>
S_Oslo == <<"O", "s", "l", "o">>
U_x6 == <<"x", "/", "6">>
U_x7 == <<"x", "/", "7">>
T_Tester == <<"T", "e", "s", "t", "e", "r">>
T_SeniorTechnicalDesigner ==
    <<"S", "e", "n", "i", "o", "r", " ", "T", "e", "c", "h", "n", "i", "c", "a", "l", " ", "D", "e", "s", "i", "g", "n", "e", "r">>
D_fun == <<"f", "u", "n">>
D_skills ==
    <<"d", "u", "n", "g", "e", "o", "n", " ", "p", "v", "p", " ", "r", "p", "g", " ", "a", "a", "a", " ", "p", "c", "g">>

P1 == [external_id |-> "e1", source |-> "jsearch", url |-> U_x1,
       title |-> T_LevelDesigner, company |-> S_Acme, location |-> NoText,
       is_remote |-> TRUE, description |-> NoText, query_group |-> "priority"]
\* same (source, external_id) as P1 under another URL
P2 == [external_id |-> "e1", source |-> "jsearch", url |-> U_x2,
       title |-> T_Intern, company |-> S_Acme, location |-> S_Paris,
       is_remote |-> FALSE, description |-> NoText, query_group |-> "priority"]
\* the URL of P1 in another spelling, every other field different
P3 == [external_id |-> NULL, source |-> "hitmarker", url |-> U_X1s,
       title |-> T_GameDesigner, company |-> S_Beta, location |-> S_Paris,
       is_remote |-> FALSE, description |-> NoText, query_group |-> "us_canada"]
\* title and company of P1 (in another spelling) from another source
P4 == [external_id |-> NULL, source |-> "hitmarker", url |-> U_x3,
       title |-> T_level_designer, company |-> S_ACME, location |-> NoText,
       is_remote |-> FALSE, description |-> NoText, query_group |-> "us_canada"]
\* the URL of P1 with a query string
P5 == [external_id |-> "e2", source |-> "jsearch", url |-> U_x1q,
       title |-> T_LevelDesigner, company |-> S_Acme, location |-> NoText,
       is_remote |-> TRUE, description |-> NoText, query_group |-> "priority"]

P6 == [external_id |-> "e6", source |-> "jsearch", url |-> U_x6,
       title |-> T_Tester, company |-> S_Beta, location |-> S_Oslo,
       is_remote |-> FALSE, description |-> D_fun, query_group |-> "priority"]

P7 == [external_id |-> "e7", source |-> "jsearch", url |-> U_x7,
       title |-> T_SeniorTechnicalDesigner, company |-> S_Beta, location |-> NoText,
       is_remote |-> TRUE, description |-> D_skills, query_group |-> "priority"]

Postings == {P1, P2, P3, P4, P5}

\* ScrapedJob(...): date_scraped defaults to the time of construction
Scraped(p, at) ==
    [external_id |-> p.external_id, source |-> p.source, url |-> p.url,
     title |-> p.title, company |-> p.company, location |-> p.location,
     is_remote |-> p.is_remote, description |-> p.description,
     query_group |-> p.query_group, date_scraped |-> at]

\* --------------------------------------------------------- table jobs (SQL)
Ids(js) == 1..Len(js)

\* SELECT id FROM jobs WHERE url_hash = ?  .fetchone(): the id, or 0 for None
SelectIdByUrlHash(js, h) ==
    IF \E i \in Ids(js) : js[i].url_hash = h
    THEN CHOOSE i \in Ids(js) : js[i].url_hash = h
    ELSE 0

\* As UpdateSeen, but the statement also resets the scoring columns (what an
\* INSERT OR REPLACE of the re-sighted posting would do).
UpdateSeenResetsScores(js, id, now) ==
    [js EXCEPT ![id] = [@ EXCEPT !.date_updated = now, !.is_active = 1,
                                 !.combined_score = NoScore, !.score_reasoning = NoText]]

\* UPDATE jobs SET date_updated = ?, is_active = 1 WHERE id = ?
UpdateSeen(js, id, now) ==
    [js EXCEPT ![id] = [@ EXCEPT !.date_updated = now, !.is_active = 1]]

\* The row an INSERT of upsert_job writes; the other columns take the
\* defaults of the schema.
NewRow(job, u_hash, tc_hash, now) ==
    [external_id |-> job.external_id, source |-> job.source, url |-> job.url,
     url_hash |-> u_hash, title |-> job.title, company |-> job.company,
     location |-> job.location, is_remote |-> IF job.is_remote THEN 1 ELSE 0,
     description |-> job.description, query_group |-> job.query_group,
     date_scraped |-> job.date_scraped, date_updated |-> now,
     title_company_hash |-> tc_hash,
     is_active |-> 1, ai_score |-> NoScore, keyword_score |-> NoScore,
     combined_score |-> NoScore, score_reasoning |-> NoText,
     user_status |-> "new", user_notes |-> NULL]

\* The constraints of table jobs: NOT NULL columns, UNIQUE(url_hash) and
\* UNIQUE(source, external_id), where SQL never takes two NULLs as equal.
UniqueUrlHash(js, row) == \A i \in Ids(js) : js[i].url_hash # row.url_hash

\* A schema without UNIQUE(source, external_id).
NoUniqueSourceExternalId(js, row) == TRUE

UniqueSourceExternalId(js, row) ==
    row.external_id # NULL =>
        \A i \in Ids(js) :
            ~(js[i].source = row.source /\ js[i].external_id = row.external_id)

NotNullColumns(row) ==
    /\ row.source # NULL /\ row.url # NoText
    /\ row.title # NoText /\ row.company # NoText

\* sqlite3.IntegrityError on INSERT INTO jobs
IntegrityError(js, row) ==
    ~(NotNullColumns(row) /\ UniqueUrlHash(js, row) /\ UniqueSourceExternalId(js, row))

\* As upsert_job, but a re-sighted posting is reported as new.
upsert_job_reports_new(js, job, now) ==
    LET u_hash == url_hash(job.url)
        existing == SelectIdByUrlHash(js, u_hash)
        row == NewRow(job, u_hash, title_company_hash(job.title, job.company), now)
    IN  IF existing # 0
        THEN [jobs |-> UpdateSeen(js, existing, now), id |-> existing, is_new |-> TRUE]
        ELSE IF ~IntegrityError(js, row)
        THEN [jobs |-> Append(js, row), id |-> Len(js) + 1, is_new |-> TRUE]
        ELSE [jobs |-> js, id |-> SelectIdByUrlHash(js, u_hash), is_new |-> FALSE]

\* As upsert_job, but the UPDATE of a re-sighted posting also sets its
\* query_group to that of the sighting.
upsert_job_retags(js, job, now) ==
    LET u_hash == url_hash(job.url)
        existing == SelectIdByUrlHash(js, u_hash)
        row == NewRow(job, u_hash, title_company_hash(job.title, job.company), now)
    IN  IF existing # 0
        THEN [jobs |-> [UpdateSeen(js, existing, now) EXCEPT
                           ![existing].query_group = job.query_group],
              id |-> existing, is_new |-> FALSE]
        ELSE IF ~IntegrityError(js, row)
        THEN [jobs |-> Append(js, row), id |-> Len(js) + 1, is_new |-> TRUE]
        ELSE [jobs |-> js, id |-> SelectIdByUrlHash(js, u_hash), is_new |-> FALSE]

\* JobRepository.upsert_job: the new table and the pair it returns
upsert_job(js, job, now) ==
    LET u_hash == url_hash(job.url)
        tc_hash == title_company_hash(job.title, job.company)
        existing == SelectIdByUrlHash(js, u_hash)
        row == NewRow(job, u_hash, tc_hash, now)
    IN  IF existing # 0
        THEN [jobs |-> UpdateSeen(js, existing, now), id |-> existing, is_new |-> FALSE]
        ELSE IF ~IntegrityError(js, row)
        THEN [jobs |-> Append(js, row), id |-> Len(js) + 1, is_new |-> TRUE]
        ELSE [jobs |-> js, id |-> SelectIdByUrlHash(js, u_hash), is_new |-> FALSE]

\* As update_scores, but the UPDATE always sets the four score columns, an
\* argument left out as NULL.
update_scores_sets_all(js, job_id, keyword_score, ai_score, combined_score, score_reasoning) ==
    IF job_id \notin Ids(js)
          \/ (keyword_score = NoScore /\ ai_score = NoScore
                 /\ combined_score = NoScore /\ score_reasoning = NoText)
    THEN js
    ELSE [js EXCEPT ![job_id] =
           [@ EXCEPT !.keyword_score = keyword_score, !.ai_score = ai_score,
                     !.combined_score = combined_score,
                     !.score_reasoning = score_reasoning]]

\* As upsert_jobs, but every posting of the batch is reported, new or not.
RECURSIVE upsert_jobs_reports_all(_, _, _)
upsert_jobs_reports_all(js, batch_jobs, now) ==
    IF batch_jobs = <<>> THEN [jobs |-> js, new_jobs |-> <<>>]
    ELSE LET r == upsert_job(js, Head(batch_jobs), now)
             rest == upsert_jobs_reports_all(r.jobs, Tail(batch_jobs), now)
         IN  [jobs |-> rest.jobs,
              new_jobs |-> <<[id |-> r.id, job |-> Head(batch_jobs)]>> \o rest.new_jobs]

\* JobRepository.upsert_jobs: upsert_job on each posting in turn; the
\* (job_id, job) of those that were new
RECURSIVE upsert_jobs(_, _, _)
upsert_jobs(js, batch_jobs, now) ==
    IF batch_jobs = <<>> THEN [jobs |-> js, new_jobs |-> <<>>]
    ELSE LET r == upsert_job(js, Head(batch_jobs), now)
             rest == upsert_jobs(r.jobs, Tail(batch_jobs), now)
         IN  [jobs |-> rest.jobs,
              new_jobs |-> (IF r.is_new
                            THEN <<[id |-> r.id, job |-> Head(batch_jobs)]>>
                            ELSE <<>>) \o rest.new_jobs]

\* JobRepository.update_scores: only the arguments that are not None are set
update_scores(js, job_id, keyword_score, ai_score, combined_score, score_reasoning) ==
    IF job_id \notin Ids(js) THEN js
    ELSE [js EXCEPT ![job_id] =
           [@ EXCEPT
              !.keyword_score = IF keyword_score # NoScore THEN keyword_score ELSE @,
              !.ai_score = IF ai_score # NoScore THEN ai_score ELSE @,
              !.combined_score = IF combined_score # NoScore THEN combined_score ELSE @,
              !.score_reasoning = IF score_reasoning # NoText THEN score_reasoning ELSE @]]

\* As set_user_status, but the one UPDATE that sets both columns is used
\* also when no notes are given.
set_user_status_sets_notes(js, job_id, status, notes) ==
    IF job_id \notin Ids(js) THEN js
    ELSE [js EXCEPT ![job_id] = [@ EXCEPT !.user_status = status, !.user_notes = notes]]

\* As set_user_status, but a posting marked 'rejected' is also made inactive.
set_user_status_archives(js, job_id, status, notes) ==
    IF job_id \notin Ids(js) THEN js
    ELSE [js EXCEPT ![job_id] =
            [@ EXCEPT !.user_status = status,
                      !.user_notes = IF notes # NULL THEN notes ELSE @,
                      !.is_active = IF status = "rejected" THEN 0 ELSE @]]

\* JobRepository.set_user_status
set_user_status(js, job_id, status, notes) ==
    IF job_id \notin Ids(js) THEN js
    ELSE IF notes # NULL
    THEN [js EXCEPT ![job_id] = [@ EXCEPT !.user_status = status, !.user_notes = notes]]
    ELSE [js EXCEPT ![job_id] = [@ EXCEPT !.user_status = status]]

\* ---------------------------------------------------- table notifications
\* As SentJobIds, but only the latest receipt of a posting on the channel
\* counts.
LastReceiptSentJobIds(ns, channel) ==
    {ns[k].job_id : k \in {i \in 1..Len(ns) :
        /\ ns[i].channel = channel /\ ns[i].status = "sent"
        /\ \A l \in (i + 1)..Len(ns) :
              ~(ns[l].channel = channel /\ ns[l].job_id = ns[i].job_id)}}

\* As SentJobIds, but without "channel = ?": a receipt sent on any channel
\* counts.
SentJobIdsAnyChannel(ns, channel) ==
    {ns[k].job_id : k \in {i \in 1..Len(ns) : ns[i].status = "sent"}}

\* SELECT job_id FROM notifications WHERE channel = ? AND status = 'sent'
SentJobIds(ns, channel) ==
    {ns[k].job_id : k \in {i \in 1..Len(ns) : ns[i].channel = channel /\ ns[i].status = "sent"}}

\* ORDER BY combined_score DESC over a set of ids of scored rows; rows of
\* equal score come in id order
RECURSIVE OrderByScoreDesc(_, _)
OrderByScoreDesc(js, ids) ==
    IF ids = {} THEN <<>>
    ELSE LET top == CHOOSE i \in ids :
                      \A j \in ids :
                          \/ js[i].combined_score[1] > js[j].combined_score[1]
                          \/ (js[i].combined_score[1] = js[j].combined_score[1] /\ i <= j)
         IN  <<top>> \o OrderByScoreDesc(js, ids \ {top})

\* As get_unnotified_jobs, but any receipt of the channel, sent or failed,
\* removes the posting (the subquery without "AND status = 'sent'").
get_unnotified_jobs_any_receipt(js, ns, channel, min_score) ==
    OrderByScoreDesc(js,
        {i \in Ids(js) :
            /\ js[i].combined_score # NoScore
            /\ js[i].combined_score[1] >= min_score
            /\ js[i].is_active = 1
            /\ ~\E k \in 1..Len(ns) : ns[k].channel = channel /\ ns[k].job_id = i})

\* JobRepository.get_unnotified_jobs: the ids of the rows it returns, in order
get_unnotified_jobs(js, ns, channel, min_score) ==
    OrderByScoreDesc(js,
        {i \in Ids(js) :
            /\ js[i].combined_score # NoScore
            /\ js[i].combined_score[1] >= min_score
            /\ js[i].is_active = 1
            /\ i \notin SentJobIds(ns, channel)})

\* COALESCE(combined_score, 0)
CoalescedScore(row) == IF row.combined_score # NoScore THEN row.combined_score[1] ELSE 0

\* ORDER BY COALESCE(combined_score, 0) DESC over a set of ids; rows of equal
\* score come in id order
RECURSIVE OrderByCoalescedScoreDesc(_, _)
OrderByCoalescedScoreDesc(js, ids) ==
    IF ids = {} THEN <<>>
    ELSE LET top == CHOOSE i \in ids :
                      \A j \in ids :
                          \/ CoalescedScore(js[i]) > CoalescedScore(js[j])
                          \/ (CoalescedScore(js[i]) = CoalescedScore(js[j]) /\ i <= j)
         IN  <<top>> \o OrderByCoalescedScoreDesc(js, ids \ {top})

\* LIMIT n: the first n rows; a negative n is no limit
Limit(rows, n) ==
    IF n < 0 \/ n >= Len(rows) THEN rows ELSE SubSeq(rows, 1, n)

\* As get_jobs, but the score filter is "combined_score >= ?" alone.
get_jobs_scored_only(js, min_score, status, source, group, limit) ==
    Limit(OrderByCoalescedScoreDesc(js,
            {i \in Ids(js) :
                /\ js[i].is_active = 1
                /\ min_score > 0
                      => (js[i].combined_score # NoScore
                            /\ js[i].combined_score[1] >= min_score)
                /\ status # NULL => js[i].user_status = status
                /\ source # NULL => js[i].source = source
                /\ group # NULL => js[i].query_group = group}),
          limit)

\* JobRepository.get_jobs: the ids of the rows it returns, in order.  A
\* filter left out (None) adds no condition, and neither does min_score <= 0.
get_jobs(js, min_score, status, source, group, limit) ==
    Limit(OrderByCoalescedScoreDesc(js,
            {i \in Ids(js) :
                /\ js[i].is_active = 1
                /\ min_score > 0
                      => (js[i].combined_score = NoScore
                            \/ js[i].combined_score[1] >= min_score)
                /\ status # NULL => js[i].user_status = status
                /\ source # NULL => js[i].source = source
                /\ group # NULL => js[i].query_group = group}),
          limit)

\* As record_notification, but a receipt of the same posting and channel is
\* replaced (INSERT OR REPLACE on (job_id, channel)).
record_notification_replaces(ns, job_id, channel, status, error, now) ==
    LET row == [job_id |-> job_id, channel |-> channel, sent_at |-> now,
                status |-> status, error_message |-> error]
    IN  IF \E k \in 1..Len(ns) : ns[k].job_id = job_id /\ ns[k].channel = channel
        THEN [k \in 1..Len(ns) |->
                IF ns[k].job_id = job_id /\ ns[k].channel = channel THEN row ELSE ns[k]]
        ELSE Append(ns, row)

\* JobRepository.record_notification: INSERT INTO notifications
record_notification(ns, job_id, channel, status, error, now) ==
    Append(ns, [job_id |-> job_id, channel |-> channel, sent_at |-> now,
                status |-> status, error_message |-> error])

\* ------------------------------------------------------ table scrape_runs
start_scrape_run(rs, source, now) ==
    Append(rs, [source |-> source, started_at |-> now, completed_at |-> NULL,
                status |-> "running", jobs_found |-> 0, jobs_new |-> 0,
                jobs_updated |-> 0, error_message |-> NULL])

complete_scrape_run(rs, run_id, jobs_found, jobs_new, jobs_updated, now) ==
    IF run_id \notin 1..Len(rs) THEN rs
    ELSE [rs EXCEPT ![run_id] =
           [@ EXCEPT !.completed_at = now, !.status = "completed",
                     !.jobs_found = jobs_found, !.jobs_new = jobs_new,
                     !.jobs_updated = jobs_updated]]

fail_scrape_run(rs, run_id, error, now) ==
    IF run_id \notin 1..Len(rs) THEN rs
    ELSE [rs EXCEPT ![run_id] =
           [@ EXCEPT !.completed_at = now, !.status = "failed", !.error_message = error]]

\* ------------------------------------------------------------------ state
Channels == {"discord", "email"}
Producers == {1, 2}

IdleProducer == [pc |-> "idle"]
IdleDispatcher == [pc |-> "idle"]
IdleBatch == [pc |-> "idle"]

\* The jobs start_scheduler adds: the run at startup and the cron job
SchedulerJobs == {"initial_run", "scrape_pipeline"}
IdlePipeline == [j \in SchedulerJobs |-> [pc |-> "idle", runs |-> 0]]

Init ==
    /\ jobs = <<>>
    /\ notifications = <<>>
    /\ scrape_runs = <<>>
    /\ clock = 0
    /\ ret = [op |-> "none"]
    /\ prod = [k \in Producers |-> IdleProducer]
    /\ ai_calls = 0
    /\ delivered = <<>>
    /\ disp = IdleDispatcher
    /\ batch = IdleBatch
    /\ pipe = IdlePipeline

\* ------------------------------------------- the store's calls, one by one
\* The posting handed to upsert_job is a record built now, or the very
\* record of the call before (the same object handed in twice).
UpsertInputs ==
    {Scraped(p, clock) : p \in Postings}
        \cup (IF ret.op = "upsert_job" THEN {ret.job} ELSE {})

Upsert(job) ==
    /\ LET r == upsert_job(jobs, job, clock + 1)
       IN  /\ jobs' = r.jobs
           /\ ret' = [op |-> "upsert_job", job |-> job, id |-> r.id,
                      is_new |-> r.is_new, at |-> clock + 1,
                      again |-> (ret.op = "upsert_job" /\ ret.job = job)]
    /\ clock' = clock + 1
    /\ UNCHANGED <<notifications, scrape_runs, prod, ai_calls, delivered, disp, batch, pipe>>

\* The score arguments callers pass: the keyword phase alone, a whole
\* scoring pass, and no argument at all.
ScoreArgs ==
    {[keyword_score |-> <<6000>>, ai_score |-> NoScore, combined_score |-> NoScore,
      score_reasoning |-> NoText],
     [keyword_score |-> <<8000>>, ai_score |-> <<4000>>, combined_score |-> <<5200>>,
      score_reasoning |-> <<"AI", "|", "Keywords">>],
     [keyword_score |-> NoScore, ai_score |-> NoScore, combined_score |-> NoScore,
      score_reasoning |-> NoText]}

UpdateScores(job_id, a) ==
    /\ clock' = clock + 1
    /\ jobs' = update_scores(jobs, job_id, a.keyword_score, a.ai_score,
                             a.combined_score, a.score_reasoning)
    /\ ret' = [op |-> "update_scores", id |-> job_id, args |-> a]
    /\ UNCHANGED <<notifications, scrape_runs, prod, ai_calls, delivered, disp, batch, pipe>>

SetUserStatus(job_id, status, notes) ==
    /\ clock' = clock + 1
    /\ jobs' = set_user_status(jobs, job_id, status, notes)
    /\ ret' = [op |-> "set_user_status", id |-> job_id, status |-> status, notes |-> notes]
    /\ UNCHANGED <<notifications, scrape_runs, prod, ai_calls, delivered, disp, batch, pipe>>

\* PRAGMA foreign_keys=ON: a receipt for an id that is no row raises and
\* writes nothing, so the call is modelled for stored ids only.
RecordNotification(job_id, channel, status) ==
    /\ job_id \in Ids(jobs)
    /\ notifications' = record_notification(notifications, job_id, channel, status,
                            IF status = "sent" THEN NULL ELSE "error", clock + 1)
    /\ ret' = [op |-> "record_notification", id |-> job_id, channel |-> channel,
               status |-> status]
    /\ clock' = clock + 1
    /\ UNCHANGED <<jobs, scrape_runs, prod, ai_calls, delivered, disp, batch, pipe>>

StartScrapeRun(source) ==
    /\ scrape_runs' = start_scrape_run(scrape_runs, source, clock + 1)
    /\ ret' = [op |-> "start_scrape_run", id |-> Len(scrape_runs) + 1]
    /\ clock' = clock + 1
    /\ UNCHANGED <<jobs, notifications, prod, ai_calls, delivered, disp, batch, pipe>>

CompleteScrapeRun(run_id, found, new) ==
    /\ scrape_runs' = complete_scrape_run(scrape_runs, run_id, found, new, 0, clock + 1)
    /\ ret' = [op |-> "complete_scrape_run", id |-> run_id]
    /\ clock' = clock + 1
    /\ UNCHANGED <<jobs, notifications, prod, ai_calls, delivered, disp, batch, pipe>>

FailScrapeRun(run_id) ==
    /\ scrape_runs' = fail_scrape_run(scrape_runs, run_id, "error", clock + 1)
    /\ ret' = [op |-> "fail_scrape_run", id |-> run_id]
    /\ clock' = clock + 1
    /\ UNCHANGED <<jobs, notifications, prod, ai_calls, delivered, disp, batch, pipe>>

\* The filters a caller passes to get_jobs: the defaults, a minimum score,
\* a minimum score with a limit of one, and every filter at once.
QueryArgs ==
    {[min_score |-> 0, status |-> NULL, source |-> NULL, group |-> NULL, limit |-> 20],
     [min_score |-> 5000, status |-> NULL, source |-> NULL, group |-> NULL, limit |-> 20],
     [min_score |-> 5000, status |-> NULL, source |-> NULL, group |-> NULL, limit |-> 1],
     [min_score |-> 7000, status |-> "applied", source |-> "jsearch",
      group |-> "priority", limit |-> 20]}

GetJobs(a) ==
    /\ ret' = [op |-> "get_jobs", args |-> a,
               rows |-> get_jobs(jobs, a.min_score, a.status, a.source, a.group, a.limit)]
    /\ clock' = clock + 1
    /\ UNCHANGED <<jobs, notifications, scrape_runs, prod, ai_calls, delivered, disp, batch, pipe>>

\* The lists a scraper hands to upsert_jobs: two postings with one URL
\* fingerprint, two with one (source, external_id), and one posting twice
\* around a posting whose URL differs from P1's in its query only.
ScrapedBatches ==
    {<<Scraped(P1, clock), Scraped(P3, clock)>>,
     <<Scraped(P2, clock), Scraped(P1, clock)>>,
     <<Scraped(P4, clock), Scraped(P5, clock), Scraped(P4, clock)>>}

UpsertJobs(batch_jobs) ==
    /\ \E r \in {upsert_jobs(jobs, batch_jobs, clock + 1)} :
          /\ jobs' = r.jobs
          /\ ret' = [op |-> "upsert_jobs", input |-> batch_jobs, new_jobs |-> r.new_jobs]
    /\ clock' = clock + 1
    /\ UNCHANGED <<notifications, scrape_runs, prod, ai_calls, delivered, disp, batch, pipe>>

StoreCall ==
    \/ \E job \in UpsertInputs : Upsert(job)
    \/ \E batch_jobs \in ScrapedBatches : UpsertJobs(batch_jobs)
    \/ \E a \in QueryArgs : GetJobs(a)
    \/ \E id \in Ids(jobs), a \in ScoreArgs : UpdateScores(id, a)
    \/ \E id \in Ids(jobs), notes \in {NULL, "note"} : SetUserStatus(id, "applied", notes)
    \/ \E id \in Ids(jobs), ch \in Channels, st \in {"sent", "failed"} :
          RecordNotification(id, ch, st)
    \/ StartScrapeRun("jsearch")
    \/ \E run \in 1..Len(scrape_runs) : CompleteScrapeRun(run, 1, 1)
    \/ \E run \in 1..Len(scrape_runs) : FailScrapeRun(run)

\* Every call takes time: the clock bounds the number of calls of a run.
Next == clock < MaxClock /\ StoreCall

Spec == Init /\ [][Next]_vars

\* ------------------------------------- upsert_job, statement by statement
\* Two producers run upsert_job against the one table; each statement (with
\* its commit) is one step, so a producer may pass the lookup of line 31
\* before the other one's INSERT.  A call is numbered by the clock it read.
MaxRaceCalls == 3

Other(k) == CHOOSE o \in Producers : o # k

MidCall(k) == prod[k].pc \in {"select", "update", "insert", "requery"}

\* lines 26-28: the hashes and `now`
RaceBegin(k, p) ==
    /\ prod[k].pc \in {"idle", "done"}
    /\ clock < MaxRaceCalls
    /\ clock' = clock + 1
    /\ LET job == Scraped(p, clock)
           u_hash == url_hash(job.url)
       IN  prod' = [prod EXCEPT ![k] =
                [pc |-> "select", call |-> clock + 1, job |-> job, u_hash |-> u_hash,
                 tc_hash |-> title_company_hash(job.title, job.company),
                 now |-> clock + 1,
                 fresh |-> SelectIdByUrlHash(jobs, u_hash) = 0,
                 overlaps |-> IF MidCall(Other(k)) THEN prod[Other(k)].call ELSE 0]]
    /\ UNCHANGED <<jobs, notifications, scrape_runs, ret, ai_calls, delivered, disp, batch, pipe>>

\* lines 31-35: the lookup by url_hash
RaceSelect(k) ==
    /\ prod[k].pc = "select"
    /\ LET existing == SelectIdByUrlHash(jobs, prod[k].u_hash)
       IN  prod' = [prod EXCEPT ![k] =
                [prod[k] EXCEPT !.pc = IF existing # 0 THEN "update" ELSE "insert"]
                    @@ [existing |-> existing]]
    /\ UNCHANGED <<jobs, notifications, scrape_runs, clock, ret, ai_calls, delivered, disp, batch, pipe>>

\* lines 36-41: the UPDATE of a re-sighted row, and the return
RaceUpdate(k) ==
    /\ prod[k].pc = "update"
    /\ jobs' = UpdateSeen(jobs, prod[k].existing, prod[k].now)
    /\ prod' = [prod EXCEPT ![k] =
            [prod[k] EXCEPT !.pc = "done"] @@ [id |-> prod[k].existing, is_new |-> FALSE]]
    /\ UNCHANGED <<notifications, scrape_runs, clock, ret, ai_calls, delivered, disp, batch, pipe>>

\* lines 56-82: the INSERT, which commits and returns or raises IntegrityError
RaceInsert(k) ==
    /\ prod[k].pc = "insert"
    /\ LET row == NewRow(prod[k].job, prod[k].u_hash, prod[k].tc_hash, prod[k].now)
       IN  IF ~IntegrityError(jobs, row)
           THEN /\ jobs' = Append(jobs, row)
                /\ prod' = [prod EXCEPT ![k] =
                       [prod[k] EXCEPT !.pc = "done"]
                           @@ [id |-> Len(jobs) + 1, is_new |-> TRUE]]
           ELSE /\ jobs' = jobs
                /\ prod' = [prod EXCEPT ![k] = [prod[k] EXCEPT !.pc = "requery"]]
    /\ UNCHANGED <<notifications, scrape_runs, clock, ret, ai_calls, delivered, disp, batch, pipe>>

\* lines 83-86: the second lookup, and the return
RaceRequery(k) ==
    /\ prod[k].pc = "requery"
    /\ prod' = [prod EXCEPT ![k] =
            [prod[k] EXCEPT !.pc = "done"]
                @@ [id |-> SelectIdByUrlHash(jobs, prod[k].u_hash), is_new |-> FALSE]]
    /\ UNCHANGED <<jobs, notifications, scrape_runs, clock, ret, ai_calls, delivered, disp, batch, pipe>>

RaceNext ==
    \E k \in Producers :
        \/ \E p \in Postings : RaceBegin(k, p)
        \/ RaceSelect(k)
        \/ RaceUpdate(k)
        \/ RaceInsert(k)
        \/ RaceRequery(k)

SpecRace == Init /\ [][RaceNext]_vars

\* ------------------------------------------------ notification dispatcher
\* Scores are fixed point: ONE stands for 1.0.
ONE == 10000

\* Discord allows up to 10 embeds per message
DiscordBatchSize == 10

Range(seq) == {seq[i] : i \in 1..Len(seq)}

\* The configuration NotificationManager.__init__ and the two adapters read:
\* notifications.discord.enabled and whether webhook_url is set,
\* notifications.email.enabled and whether smtp_username, smtp_password,
\* from_address and to_address are all set, scoring.notification_threshold
\* (default 0.5) and notifications.discord.min_score (0.6 here, which is also
\* its default).  The second lacks a credential of email, the third the
\* webhook of discord, the fourth has both channels switched off.
DispatchConfigs ==
    {[discord_enabled |-> TRUE, webhook_url |-> TRUE,
      email_enabled |-> TRUE, smtp_credentials |-> TRUE,
      min_score |-> ONE \div 2, discord_min_score |-> (ONE * 6) \div 10],
     [discord_enabled |-> TRUE, webhook_url |-> TRUE,
      email_enabled |-> TRUE, smtp_credentials |-> FALSE,
      min_score |-> (ONE * 7) \div 10, discord_min_score |-> (ONE * 6) \div 10],
     [discord_enabled |-> TRUE, webhook_url |-> FALSE,
      email_enabled |-> TRUE, smtp_credentials |-> TRUE,
      min_score |-> ONE \div 2, discord_min_score |-> (ONE * 6) \div 10],
     [discord_enabled |-> FALSE, webhook_url |-> TRUE,
      email_enabled |-> FALSE, smtp_credentials |-> TRUE,
      min_score |-> ONE \div 2, discord_min_score |-> (ONE * 6) \div 10]}

\* DiscordNotifier.is_available: enabled and bool(webhook_url)
discord_is_available(cfg) == cfg.discord_enabled /\ cfg.webhook_url

\* An email adapter that does not look at its credentials.
email_is_available_unchecked(cfg) == cfg.email_enabled

\* EmailNotifier.is_available: enabled, and switched off by __init__ when a
\* credential is missing
email_is_available(cfg) == cfg.email_enabled /\ cfg.smtp_credentials

ChannelAvailable(cfg, channel) ==
    IF channel = "discord" THEN discord_is_available(cfg) ELSE email_is_available(cfg)

NumBatches(n) == (n + DiscordBatchSize - 1) \div DiscordBatchSize

\* DiscordNotifier.send_jobs: one webhook message per batch of 10; ok[b] says
\* whether message b was delivered (status 200/204) or failed / raised.  The
\* result is one (job_id, success, error) per posting.
discord_send_jobs(ids, enabled, ok) ==
    IF ~enabled THEN <<>>
    ELSE [i \in 1..Len(ids) |->
            LET b == NumBatches(i)
            IN  [job_id |-> ids[i], success |-> ok[b],
                 error |-> IF ok[b] THEN "" ELSE "Webhook failed"]]

\* EmailNotifier.send_jobs: one digest for all postings; it is sent or not.
email_send_jobs(ids, enabled, ok) ==
    IF ~enabled \/ ids = <<>> THEN <<>>
    ELSE [i \in 1..Len(ids) |->
            [job_id |-> ids[i], success |-> ok,
             error |-> IF ok THEN "" ELSE "SMTP error"]]

\* _send_channel, lines 50-56: one receipt per result, in order
RECURSIVE RecordResults(_, _, _, _)
RecordResults(ns, results, channel, now) ==
    IF results = <<>> THEN ns
    ELSE RecordResults(
            record_notification(ns, Head(results).job_id, channel,
                IF Head(results).success THEN "sent" ELSE "failed",
                IF Head(results).error # "" THEN Head(results).error ELSE NULL, now),
            Tail(results), channel, now)

\* The (job id, channel) pairs of the messages an adapter delivered
Deliveries(results, channel) ==
    [i \in 1..Len(SelectSeq(results, LAMBDA r : r.success)) |->
        <<SelectSeq(results, LAMBDA r : r.success)[i].job_id, channel>>]

\* NotificationManager._send_channel for an available channel: the postings
\* handed to the adapter, the receipts after it, and what was delivered.
send_channel(js, ns, channel, min_score, ok, now) ==
    LET ids == get_unnotified_jobs(js, ns, channel, min_score)
        results == IF channel = "discord"
                   THEN discord_send_jobs(ids, TRUE, ok)
                   ELSE email_send_jobs(ids, TRUE, ok)
    IN  IF ids = <<>>
        THEN [notifications |-> ns, handed |-> <<>>, delivered |-> <<>>]
        ELSE [notifications |-> RecordResults(ns, results, channel, now),
              handed |-> ids, delivered |-> Deliveries(results, channel)]

NotSent == [notifications |-> <<>>, handed |-> <<>>, delivered |-> <<>>]

\* NotificationManager.send_all: discord, then email, each if available
SendAll(cfg) ==
    \E okd \in [1..NumBatches(Len(jobs)) -> BOOLEAN], oke \in BOOLEAN :
        LET d == IF discord_is_available(cfg)
                 THEN send_channel(jobs, notifications, "discord", cfg.min_score,
                                   okd, clock + 1)
                 ELSE [NotSent EXCEPT !.notifications = notifications]
            e == IF email_is_available(cfg)
                 THEN send_channel(jobs, d.notifications, "email", cfg.min_score,
                                   oke, clock + 1)
                 ELSE [NotSent EXCEPT !.notifications = d.notifications]
        IN  /\ notifications' = e.notifications
            /\ delivered' = delivered \o d.delivered \o e.delivered
            /\ ret' = [op |-> "send_all", cfg |-> cfg,
                       handed |-> [discord |-> d.handed, email |-> e.handed]]
            /\ clock' = clock + 1
            /\ UNCHANGED <<jobs, scrape_runs, prod, ai_calls, disp, batch, pipe>>

\* A store the pipeline has filled: P1 and P4 ingested and scored, P1 above
\* every threshold and P4 exactly at the default one.
SeedJobs ==
    LET a == upsert_job(<<>>, Scraped(P1, 0), 1).jobs
        b == upsert_job(a, Scraped(P4, 1), 2).jobs
        c == update_scores(b, 1, <<8000>>, NoScore, <<8000>>, <<"Keywords">>)
    IN  update_scores(c, 2, <<5000>>, NoScore, <<5000>>, <<"Keywords">>)

\* The time after one call per stored posting
SeedClock == Len(SeedJobs)

InitNotify ==
    /\ jobs = SeedJobs
    /\ notifications = <<>>
    /\ scrape_runs = <<>>
    /\ clock = SeedClock
    /\ ret = [op |-> "none"]
    /\ prod = [k \in Producers |-> IdleProducer]
    /\ ai_calls = 0
    /\ delivered = <<>>
    /\ disp = IdleDispatcher
    /\ batch = IdleBatch
    /\ pipe = IdlePipeline

MaxNotifyClock == 3

NotifyNext ==
    /\ clock < SeedClock + MaxNotifyClock
    /\ \/ \E cfg \in DispatchConfigs : SendAll(cfg)
       \/ \E id \in Ids(jobs), ch \in Channels, st \in {"sent", "failed"} :
             RecordNotification(id, ch, st)
       \/ \E id \in Ids(jobs), a \in ScoreArgs : UpdateScores(id, a)
       \/ \E p \in {P3, P6} : Upsert(Scraped(p, clock))

SpecNotify == InitNotify /\ [][NotifyNext]_vars

\* ------------------------------------------------ send_all, step by step
\* The dispatcher as a process: the adapter call and every receipt write are
\* steps of their own, a receipt write may raise, and the process may stop
\* at any point.  What the adapter returned lives in memory only.
MaxDispatchClock == 5

AvailableChannels(cfg) ==
    (IF discord_is_available(cfg) THEN <<"discord">> ELSE <<>>)
        \o (IF email_is_available(cfg) THEN <<"email">> ELSE <<>>)

\* send_all is called (lines 24-30)
DispStart(cfg) ==
    /\ disp.pc = "idle"
    /\ disp' = [pc |-> "send", cfg |-> cfg, todo |-> AvailableChannels(cfg),
                call |-> clock + 1, invoked |-> <<>>, sends |-> <<>>]
    /\ clock' = clock + 1
    /\ UNCHANGED <<jobs, notifications, scrape_runs, ret, prod, ai_calls, delivered, batch, pipe>>

\* How a send_all call ended, the channels whose adapter it invoked and what
\* each send_jobs returned; the call took the times call+1 .. ended
CallEnded(d, outcome) ==
    [op |-> "send_all_ended", call |-> d.call, cfg |-> d.cfg, outcome |-> outcome,
     invoked |-> d.invoked, sends |-> d.sends, ended |-> clock]

\* send_all returns
DispReturn ==
    /\ disp.pc = "send" /\ disp.todo = <<>>
    /\ disp' = IdleDispatcher
    /\ ret' = CallEnded(disp, "returned")
    /\ UNCHANGED <<jobs, notifications, scrape_runs, clock, prod, ai_calls, delivered, batch, pipe>>

\* _send_channel, lines 34-48: the query and the adapter's send_jobs
DispSend ==
    /\ disp.pc = "send" /\ disp.todo # <<>>
    /\ LET ch == Head(disp.todo)
           ids == get_unnotified_jobs(jobs, notifications, ch, disp.cfg.min_score)
       IN  IF ids = <<>>
           THEN /\ disp' = [disp EXCEPT !.todo = Tail(disp.todo)]
                /\ delivered' = delivered
           ELSE \E okd \in [1..NumBatches(Len(ids)) -> BOOLEAN], oke \in BOOLEAN :
                   LET results == IF ch = "discord"
                                  THEN discord_send_jobs(ids, TRUE, okd)
                                  ELSE email_send_jobs(ids, TRUE, oke)
                   IN  /\ delivered' = delivered \o Deliveries(results, ch)
                       /\ disp' = [pc |-> "record", cfg |-> disp.cfg,
                                   todo |-> disp.todo, call |-> disp.call,
                                   invoked |-> Append(disp.invoked, ch),
                                   sends |-> Append(disp.sends,
                                                [channel |-> ch, results |-> results]),
                                   results |-> results]
    /\ UNCHANGED <<jobs, notifications, scrape_runs, clock, ret, prod, ai_calls, batch, pipe>>

\* _send_channel, lines 50-56: the next record_notification, committed
DispRecord ==
    /\ disp.pc = "record"
    /\ notifications' = RecordResults(notifications, <<Head(disp.results)>>,
                                      Head(disp.todo), clock + 1)
    /\ clock' = clock + 1
    /\ disp' = IF Len(disp.results) > 1
               THEN [disp EXCEPT !.results = Tail(disp.results)]
               ELSE [pc |-> "send", cfg |-> disp.cfg, todo |-> Tail(disp.todo),
                     call |-> disp.call, invoked |-> disp.invoked,
                     sends |-> disp.sends]
    /\ UNCHANGED <<jobs, scrape_runs, ret, prod, ai_calls, delivered, batch, pipe>>

\* record_notification raises (a storage error): nothing in send_all catches
\* it, so the run ends with the remaining results unrecorded
DispRecordRaises ==
    /\ disp.pc = "record"
    /\ disp' = IdleDispatcher
    /\ ret' = CallEnded(disp, "raised")
    /\ UNCHANGED <<jobs, notifications, scrape_runs, clock, prod, ai_calls, delivered, batch, pipe>>

\* the process stops (interrupt, crash) and is started again later
DispStop ==
    /\ disp.pc # "idle"
    /\ disp' = IdleDispatcher
    /\ UNCHANGED <<jobs, notifications, scrape_runs, clock, ret, prod, ai_calls, delivered, batch, pipe>>

DispatchNext ==
    /\ clock < SeedClock + MaxDispatchClock
    /\ \/ \E cfg \in DispatchConfigs : DispStart(cfg)
       \/ DispSend
       \/ DispRecord
       \/ DispRecordRaises
       \/ DispStop
       \/ DispReturn

SpecDispatch == InitNotify /\ [][DispatchNext]_vars

\* ---------------------------------------------------------------- scoring
\* keyword in text, of two str
Contains(sub, text) ==
    \E i \in 0..(Len(text) - Len(sub)) : \A j \in 1..Len(sub) : text[i + j] = sub[j]

max(a, b) == IF a >= b THEN a ELSE b
min(a, b) == IF a <= b THEN a ELSE b

\* The tables of the keyword scorer, scores in fixed point.
TITLE_SCORES ==
    <<<<<<"l", "e", "v", "e", "l", " ", "d", "e", "s", "i", "g", "n", "e", "r">>, 10000>>,
      <<<<"w", "o", "r", "l", "d", " ", "d", "e", "s", "i", "g", "n", "e", "r">>, 10000>>,
      <<<<"s", "e", "n", "i", "o", "r", " ", "l", "e", "v", "e", "l", " ", "d", "e", "s", "i", "g", "n", "e", "r">>, 10000>>,
      <<<<"l", "e", "a", "d", " ", "l", "e", "v", "e", "l", " ", "d", "e", "s", "i", "g", "n", "e", "r">>, 10000>>,
      <<<<"s", "e", "n", "i", "o", "r", " ", "w", "o", "r", "l", "d", " ", "d", "e", "s", "i", "g", "n", "e", "r">>, 10000>>,
      <<<<"l", "e", "a", "d", " ", "w", "o", "r", "l", "d", " ", "d", "e", "s", "i", "g", "n", "e", "r">>, 10000>>,
      <<<<"p", "r", "i", "n", "c", "i", "p", "a", "l", " ", "l", "e", "v", "e", "l", " ", "d", "e", "s", "i", "g", "n", "e", "r">>, 10000>>,
      <<<<"e", "n", "v", "i", "r", "o", "n", "m", "e", "n", "t", " ", "d", "e", "s", "i", "g", "n", "e", "r">>, 8500>>,
      <<<<"t", "e", "c", "h", "n", "i", "c", "a", "l", " ", "l", "e", "v", "e", "l", " ", "d", "e", "s", "i", "g", "n", "e", "r">>, 8500>>,
      <<<<"t", "e", "c", "h", "n", "i", "c", "a", "l", " ", "d", "e", "s", "i", "g", "n", "e", "r">>, 6000>>,
      <<<<"g", "a", "m", "e", " ", "d", "e", "s", "i", "g", "n", "e", "r">>, 5500>>,
      <<<<"c", "o", "n", "t", "e", "n", "t", " ", "d", "e", "s", "i", "g", "n", "e", "r">>, 5000>>,
      <<<<"q", "u", "e", "s", "t", " ", "d", "e", "s", "i", "g", "n", "e", "r">>, 4500>>,
      <<<<"e", "n", "c", "o", "u", "n", "t", "e", "r", " ", "d", "e", "s", "i", "g", "n", "e", "r">>, 4500>>,
      <<<<"n", "a", "r", "r", "a", "t", "i", "v", "e", " ", "d", "e", "s", "i", "g", "n", "e", "r">>, 3000>>,
      <<<<"s", "y", "s", "t", "e", "m", "s", " ", "d", "e", "s", "i", "g", "n", "e", "r">>, 3000>>,
      <<<<"c", "o", "m", "b", "a", "t", " ", "d", "e", "s", "i", "g", "n", "e", "r">>, 6000>>,
      <<<<"m", "u", "l", "t", "i", "p", "l", "a", "y", "e", "r", " ", "d", "e", "s", "i", "g", "n", "e", "r">>, 5000>>>>

SENIORITY_SCORES ==
    <<<<<<"p", "r", "i", "n", "c", "i", "p", "a", "l">>, 10000>>,
      <<<<"s", "t", "a", "f", "f">>, 9500>>,
      <<<<"s", "e", "n", "i", "o", "r">>, 10000>>,
      <<<<"l", "e", "a", "d">>, 10000>>,
      <<<<"s", "r", ".">>, 10000>>,
      <<<<"s", "r", " ">>, 10000>>,
      <<<<"d", "i", "r", "e", "c", "t", "o", "r">>, 7000>>,
      <<<<"m", "a", "n", "a", "g", "e", "r">>, 5000>>,
      <<<<"m", "i", "d">>, 5000>>,
      <<<<"i", "i">>, 5000>>,
      <<<<"i", "i", "i">>, 8000>>,
      <<<<"j", "u", "n", "i", "o", "r">>, 1000>>,
      <<<<"j", "r", ".">>, 1000>>,
      <<<<"j", "r", " ">>, 1000>>,
      <<<<"e", "n", "t", "r", "y">>, 500>>,
      <<<<"i", "n", "t", "e", "r", "n">>, 0>>,
      <<<<"a", "s", "s", "o", "c", "i", "a", "t", "e">>, 2000>>>>

SKILL_KEYWORDS ==
    <<<<<<"u", "n", "r", "e", "a", "l", " ", "e", "n", "g", "i", "n", "e">>, 10000>>,
      <<<<"u", "n", "r", "e", "a", "l">>, 9000>>,
      <<<<"u", "e", "5">>, 10000>>,
      <<<<"u", "e", "4">>, 9000>>,
      <<<<"b", "l", "u", "e", "p", "r", "i", "n", "t", "s">>, 8000>>,
      <<<<"p", "c", "g">>, 7000>>,
      <<<<"p", "r", "o", "c", "e", "d", "u", "r", "a", "l", " ", "c", "o", "n", "t", "e", "n", "t", " ", "g", "e", "n", "e", "r", "a", "t", "i", "o", "n">>, 8000>>,
      <<<<"o", "p", "e", "n", " ", "w", "o", "r", "l", "d">>, 9000>>,
      <<<<"o", "p", "e", "n", "-", "w", "o", "r", "l", "d">>, 9000>>,
      <<<<"e", "n", "c", "o", "u", "n", "t", "e", "r", " ", "d", "e", "s", "i", "g", "n">>, 9000>>,
      <<<<"l", "e", "v", "e", "l", " ", "b", "l", "o", "c", "k", "o", "u", "t">>, 9000>>,
      <<<<"b", "l", "o", "c", "k", "o", "u", "t">>, 8000>>,
      <<<<"g", "r", "e", "y", "b", "o", "x">>, 8000>>,
      <<<<"w", "h", "i", "t", "e", "b", "o", "x">>, 8000>>,
      <<<<"e", "n", "v", "i", "r", "o", "n", "m", "e", "n", "t", "a", "l", " ", "s", "t", "o", "r", "y", "t", "e", "l", "l", "i", "n", "g">>, 8500>>,
      <<<<"c", "o", "m", "b", "a", "t", " ", "d", "e", "s", "i", "g", "n">>, 8000>>,
      <<<<"c", "o", "m", "b", "a", "t", " ", "s", "p", "a", "c", "e">>, 8500>>,
      <<<<"p", "l", "a", "y", "e", "r", " ", "f", "l", "o", "w">>, 8000>>,
      <<<<"m", "e", "t", "r", "i", "c", "s">>, 5000>>,
      <<<<"r", "e", "a", "d", "a", "b", "i", "l", "i", "t", "y">>, 6000>>,
      <<<<"d", "u", "n", "g", "e", "o", "n">>, 8000>>,
      <<<<"m", "m", "o">>, 7000>>,
      <<<<"m", "m", "o", "r", "p", "g">>, 7500>>,
      <<<<"r", "p", "g">>, 7000>>,
      <<<<"l", "i", "v", "e", " ", "s", "e", "r", "v", "i", "c", "e">>, 6000>>,
      <<<<"l", "i", "v", "e", "-", "s", "e", "r", "v", "i", "c", "e">>, 6000>>,
      <<<<"p", "v", "p">>, 6000>>,
      <<<<"m", "u", "l", "t", "i", "p", "l", "a", "y", "e", "r">>, 5000>>,
      <<<<"n", "a", "r", "r", "a", "t", "i", "v", "e">>, 4000>>,
      <<<<"a", "a", "a">>, 7000>>,
      <<<<"l", "u", "a">>, 5000>>,
      <<<<"p", "y", "t", "h", "o", "n">>, 4000>>,
      <<<<"c", "#">>, 4000>>,
      <<<<"p", "e", "r", "f", "o", "r", "c", "e">>, 4000>>,
      <<<<"j", "i", "r", "a">>, 3000>>>>


\* for keyword, score in TABLE.items(): if keyword in text:
\*     best_score = max(best_score, score)
RECURSIVE BestMatch(_, _, _)
BestMatch(table, text, best_score) ==
    IF table = <<>> THEN best_score
    ELSE BestMatch(Tail(table), text,
                   IF Contains(Head(table)[1], text)
                   THEN max(best_score, Head(table)[2]) ELSE best_score)

\* The weights of the skill keywords found in the text, in table order
RECURSIVE MatchedScores(_, _)
MatchedScores(table, text) ==
    IF table = <<>> THEN <<>>
    ELSE (IF Contains(Head(table)[1], text) THEN <<Head(table)[2]>> ELSE <<>>)
             \o MatchedScores(Tail(table), text)

\* list.sort(reverse=True)
RECURSIVE SortDesc(_)
SortDesc(s) ==
    IF s = <<>> THEN <<>>
    ELSE LET i == CHOOSE i \in DOMAIN s : \A j \in DOMAIN s : s[i] >= s[j]
         IN  <<s[i]>> \o SortDesc(SubSeq(s, 1, i - 1) \o SubSeq(s, i + 1, Len(s)))

\* sum(list)
RECURSIVE Sum(_)
Sum(s) == IF s = <<>> THEN 0 ELSE Head(s) + Sum(Tail(s))

\* text or "", and text[:n]
OrEmpty(text) == IF text = NoText THEN <<>> ELSE text
Prefix(text, n) == SubSeq(text, 1, min(n, Len(text)))

\* KeywordScorer._score_title
score_title(title) == BestMatch(TITLE_SCORES, lower(title), 0)

\* KeywordScorer._score_seniority: unspecified counts as mid-level, 0.5
score_seniority(title, description) ==
    BestMatch(SENIORITY_SCORES,
              lower(title \o <<" ">> \o Prefix(OrEmpty(description), 500)),
              ONE \div 2)

\* KeywordScorer._score_skills: the mean of the ten best weights found plus
\* 0.02 per keyword found, capped at 0.2 and at 1.0 in all
score_skills(description) ==
    IF description = <<>> THEN 3000
    ELSE LET matched_scores == SortDesc(MatchedScores(SKILL_KEYWORDS, lower(description)))
             top_scores == Prefix(matched_scores, 10)
         IN  IF matched_scores = <<>> THEN 1000
             ELSE min(ONE, (Sum(top_scores) \div Len(top_scores))
                               + min(2000, Len(matched_scores) * 200))

\* The candidate profile's locations
ProfileLocations ==
    [preferred |-> << <<"B", "o", "s", "t", "o", "n">>, <<"R", "e", "m", "o", "t", "e">> >>,
     acceptable |-> << S_Paris >>]

\* any(p in loc or loc in p for p in places), places lowered
LocationMatches(places, loc_lower) ==
    \E i \in DOMAIN places :
        \/ Contains(lower(places[i]), loc_lower)
        \/ Contains(loc_lower, lower(places[i]))

\* KeywordScorer._score_location
score_location(location, is_remote) ==
    IF is_remote THEN ONE
    ELSE IF OrEmpty(location) = <<>> THEN ONE \div 2
    ELSE IF LocationMatches(ProfileLocations.preferred, lower(location)) THEN ONE
    ELSE IF LocationMatches(ProfileLocations.acceptable, lower(location)) THEN 7000
    ELSE 2000

\* f"{x:.2f}": a score in hundredths
Format2(x) == (x + 50) \div 100

\* KeywordScorer.score_job: the four sub-scores weighted .35/.20/.30/.15 and
\* clamped to 0..1, and the reasoning that names them
keyword_score_job(title, description, location, is_remote) ==
    LET title_score == score_title(title)
        seniority_score == score_seniority(title, description)
        skills_score == score_skills(OrEmpty(description))
        location_score == score_location(location, is_remote)
        combined == (title_score * 35 + seniority_score * 20
                        + skills_score * 30 + location_score * 15) \div 100
    IN  [score |-> max(0, min(ONE, combined)),
         reasoning |-> <<"Title", Format2(title_score),
                         "Seniority", Format2(seniority_score),
                         "Skills", Format2(skills_score),
                         "Location", Format2(location_score)>>]

\* What the model's API answers: an API error, a text that is no JSON, a
\* JSON text that is no object (a list), or a JSON object with a score.
AIResponses ==
    {[kind |-> "api_error"], [kind |-> "not_json"], [kind |-> "json_not_object"],
     [kind |-> "json", score |-> 4000, reasoning |-> "fair match"],
     [kind |-> "json", score |-> 15000, reasoning |-> "great match"]}

\* AIScorer._parse_response: the score clamped to 0..1; a JSONDecodeError,
\* ValueError or KeyError gives (0.0, "Parse error: ..."); data.get on a JSON
\* value that is no object raises AttributeError, which is not caught here
parse_response(response) ==
    IF response.kind = "json"
    THEN [score |-> max(0, min(ONE, response.score)), reasoning |-> response.reasoning,
          raised |-> FALSE]
    ELSE IF response.kind = "json_not_object"
    THEN [score |-> 0, reasoning |-> "AttributeError", raised |-> TRUE]
    ELSE [score |-> 0, reasoning |-> "Parse error", raised |-> FALSE]

\* AIScorer.is_available
is_available(cfg) == cfg.api_key

\* As ai_score_job, but without the two except clauses: an API error and an
\* error of _parse_response leave score_job as exceptions.
ai_score_job_uncaught(cfg, response) ==
    IF ~is_available(cfg)
    THEN [score |-> 0, reasoning |-> "AI scorer unavailable (no API key)", raised |-> FALSE]
    ELSE IF response.kind = "api_error"
    THEN [score |-> 0, reasoning |-> "APIError", raised |-> TRUE]
    ELSE parse_response(response)

\* AIScorer.score_job: every failure comes back as the score 0.0; raised
\* says whether the call ends with an exception
ai_score_job(cfg, response) ==
    IF ~is_available(cfg)
    THEN [score |-> 0, reasoning |-> "AI scorer unavailable (no API key)", raised |-> FALSE]
    ELSE IF response.kind = "api_error"
    THEN [score |-> 0, reasoning |-> "AI scoring failed (API error)", raised |-> FALSE]
    ELSE IF parse_response(response).raised
    THEN [score |-> 0, reasoning |-> "AI scoring failed (unexpected error)",
          raised |-> FALSE]
    ELSE parse_response(response)

\* ScorerManager.__init__: self.use_ai
use_ai(cfg) == cfg.engine \in {"ai", "hybrid"} /\ is_available(cfg)

\* As RunsAI, but every posting goes to the AI scorer once AI is in use.
RunsAIUngated(cfg, kw_score) == use_ai(cfg)

\* if self.use_ai and kw_score >= self.min_keyword_for_ai
RunsAI(cfg, kw_score) == use_ai(cfg) /\ kw_score >= cfg.min_keyword_for_ai

\* As CombinedScore, but a missing AI score is weighted in as 0.0.
CombinedScoreAiZero(cfg, ai_score, kw_score) ==
    (cfg.ai_weight * (IF ai_score # NoScore THEN ai_score[1] ELSE 0)
        + cfg.keyword_weight * kw_score) \div 100

\* As CombinedScore, but with the two weights exchanged.
CombinedScoreSwapped(cfg, ai_score, kw_score) ==
    IF ai_score # NoScore
    THEN (cfg.keyword_weight * ai_score[1] + cfg.ai_weight * kw_score) \div 100
    ELSE kw_score

\* combined = ai_weight * ai_score + keyword_weight * kw_score when there is
\* an AI score, else kw_score; the weights are held in hundredths
CombinedScore(cfg, ai_score, kw_score) ==
    IF ai_score # NoScore
    THEN (cfg.ai_weight * ai_score[1] + cfg.keyword_weight * kw_score) \div 100
    ELSE kw_score

\* ScorerManager.score_job, after the keyword scorer has returned kw; an
\* exception of the AI scorer would leave score_job before update_scores
score_job_rest(js, job_id, cfg, response, kw) ==
    LET called == RunsAI(cfg, kw.score)
        ai == IF called THEN ai_score_job(cfg, response)
              ELSE [score |-> 0, reasoning |-> "", raised |-> FALSE]
        ai_score == IF called THEN <<ai.score>> ELSE NoScore
        combined == CombinedScore(cfg, ai_score, kw.score)
        reasoning == IF ai_score # NoScore
                     THEN <<"AI", ai.reasoning, "|", "Keywords">> \o kw.reasoning
                     ELSE <<"Keywords">> \o kw.reasoning
    IN  [jobs |-> IF ai.raised THEN js
                  ELSE update_scores(js, job_id, <<kw.score>>, ai_score, <<combined>>,
                                     reasoning),
         keyword_score |-> kw.score, ai_called |-> called, raised |-> ai.raised]

\* score_job, lines 41-50: the keyword scorer on the row's columns
KeywordOfRow(job) ==
    keyword_score_job(job.title, job.description, job.location, job.is_remote # 0)

\* ScorerManager.score_job
score_job(js, job_id, cfg, response) ==
    score_job_rest(js, job_id, cfg, response, KeywordOfRow(js[job_id]))

\* The scoring configurations: the defaults, a gate equal to a posting's
\* keyword score, the keyword engine, no API key, the ai engine, and weights
\* that add up to more than 1 (the weights are read from the configuration
\* as they are).
ScoreConfigs ==
    {[engine |-> "hybrid", api_key |-> TRUE, min_keyword_for_ai |-> 2000,
      ai_weight |-> 70, keyword_weight |-> 30],
     [engine |-> "hybrid", api_key |-> TRUE, min_keyword_for_ai |-> 1600,
      ai_weight |-> 70, keyword_weight |-> 30],
     [engine |-> "keyword", api_key |-> TRUE, min_keyword_for_ai |-> 2000,
      ai_weight |-> 70, keyword_weight |-> 30],
     [engine |-> "hybrid", api_key |-> FALSE, min_keyword_for_ai |-> 2000,
      ai_weight |-> 70, keyword_weight |-> 30],
     [engine |-> "ai", api_key |-> TRUE, min_keyword_for_ai |-> 7000,
      ai_weight |-> 60, keyword_weight |-> 40],
     [engine |-> "hybrid", api_key |-> TRUE, min_keyword_for_ai |-> 2000,
      ai_weight |-> 90, keyword_weight |-> 30]}

ScoreJob(job_id, cfg, response) ==
    /\ job_id \in Ids(jobs)
    /\ \E r \in {score_job(jobs, job_id, cfg, response)} :
           /\ jobs' = r.jobs
           /\ ai_calls' = ai_calls + (IF r.ai_called THEN 1 ELSE 0)
           /\ ret' = [op |-> "score_job", id |-> job_id, cfg |-> cfg,
                      keyword_score |-> r.keyword_score, ai_called |-> r.ai_called,
                      raised |-> r.raised,
                      response |-> IF r.ai_called THEN response ELSE [kind |-> "none"]]
    /\ clock' = clock + 1
    /\ UNCHANGED <<notifications, scrape_runs, prod, delivered, disp, batch, pipe>>

\* A store with three postings ingested and not yet scored: keyword scores
\* 0.69, 0.16 and 0.80.
ScoreSeedJobs ==
    LET a == upsert_job(<<>>, Scraped(P1, 0), 1).jobs
        b == upsert_job(a, Scraped(P6, 1), 2).jobs
    IN  upsert_job(b, Scraped(P7, 2), 3).jobs

ScoreSeedClock == Len(ScoreSeedJobs)

InitScore ==
    /\ jobs = ScoreSeedJobs
    /\ notifications = <<>>
    /\ scrape_runs = <<>>
    /\ clock = ScoreSeedClock
    /\ ret = [op |-> "none"]
    /\ prod = [k \in Producers |-> IdleProducer]
    /\ ai_calls = 0
    /\ delivered = <<>>
    /\ disp = IdleDispatcher
    /\ batch = IdleBatch
    /\ pipe = IdlePipeline

MaxScoreClock == 2

ScoreNext ==
    /\ clock < ScoreSeedClock + MaxScoreClock
    /\ \E id \in Ids(jobs), cfg \in ScoreConfigs, response \in AIResponses :
          ScoreJob(id, cfg, response)

SpecScore == InitScore /\ [][ScoreNext]_vars

\* ------------------------------------------------ score_batch, step by step
\* ORDER BY date_scraped DESC over a set of ids; rows of equal date come in
\* id order
RECURSIVE OrderByDateScrapedDesc(_, _)
OrderByDateScrapedDesc(js, ids) ==
    IF ids = {} THEN <<>>
    ELSE LET top == CHOOSE i \in ids :
                      \A j \in ids :
                          \/ js[i].date_scraped > js[j].date_scraped
                          \/ (js[i].date_scraped = js[j].date_scraped /\ i <= j)
         IN  <<top>> \o OrderByDateScrapedDesc(js, ids \ {top})

\* As get_unscored_jobs, but a posting whose AI score is 0.0 is returned
\* again, to be scored once more.
get_unscored_jobs_retry_ai(js) ==
    OrderByDateScrapedDesc(js,
        {i \in Ids(js) :
            /\ js[i].combined_score = NoScore \/ js[i].ai_score = <<0>>
            /\ js[i].is_active = 1})

\* As get_unscored_jobs, but the query ends with LIMIT 1.
get_unscored_jobs_limit_one(js) ==
    Limit(OrderByDateScrapedDesc(js,
        {i \in Ids(js) : js[i].combined_score = NoScore /\ js[i].is_active = 1}), 1)

\* JobRepository.get_unscored_jobs: the ids of the rows it returns, in order
get_unscored_jobs(js) ==
    OrderByDateScrapedDesc(js,
        {i \in Ids(js) : js[i].combined_score = NoScore /\ js[i].is_active = 1})

MaxBatchClock == 4

\* The caller fetches the unscored postings and, if there are any, hands
\* them to score_batch (job_scheduler.py lines 41-43)
BatchStart(cfg) ==
    /\ batch.pc = "idle"
    /\ get_unscored_jobs(jobs) # <<>>
    /\ batch' = [pc |-> "score", cfg |-> cfg, input |-> get_unscored_jobs(jobs),
                 todo |-> get_unscored_jobs(jobs), attempted |-> <<>>, failed |-> {},
                 ai_failed |-> {}]
    /\ clock' = clock + 1
    /\ UNCHANGED <<jobs, notifications, scrape_runs, ret, prod, ai_calls, delivered, disp, pipe>>

\* As BatchScoreRaises, but the error is not caught: the batch ends there.
BatchScoreRaisesUncaught ==
    /\ batch.pc = "score" /\ batch.todo # <<>>
    /\ \E kw \in {KeywordOfRow(jobs[Head(batch.todo)])} :
          ai_calls' = ai_calls + (IF RunsAI(batch.cfg, kw.score) THEN 1 ELSE 0)
    /\ batch' = [batch EXCEPT !.todo = <<>>,
                              !.attempted = Append(@, Head(batch.todo)),
                              !.failed = @ \cup {Head(batch.todo)}]
    /\ clock' = clock + 1
    /\ UNCHANGED <<jobs, notifications, scrape_runs, ret, prod, delivered, disp, pipe>>

\* score_job of the next posting runs to its end: its scores are stored.
\* ai_failed collects the postings whose AI call did not get a score; an
\* exception of score_job is caught as in BatchScoreRaises.
BatchScore ==
    /\ batch.pc = "score" /\ batch.todo # <<>>
    /\ \E response \in AIResponses :
          \E r \in {score_job(jobs, Head(batch.todo), batch.cfg, response)} :
              /\ jobs' = r.jobs
              /\ ai_calls' = ai_calls + (IF r.ai_called THEN 1 ELSE 0)
              /\ batch' = [batch EXCEPT
                             !.todo = Tail(@),
                             !.attempted = Append(@, Head(batch.todo)),
                             !.failed = IF r.raised THEN @ \cup {Head(batch.todo)} ELSE @,
                             !.ai_failed = IF r.ai_called /\ response.kind # "json"
                                           THEN @ \cup {Head(batch.todo)} ELSE @]
    /\ clock' = clock + 1
    /\ UNCHANGED <<notifications, scrape_runs, ret, prod, delivered, disp, pipe>>

\* score_job of the next posting raises when it stores the scores (the
\* UPDATE fails, nothing is written); score_batch catches the error, logs
\* it and goes on with the next posting
BatchScoreRaises ==
    /\ batch.pc = "score" /\ batch.todo # <<>>
    /\ \E kw \in {KeywordOfRow(jobs[Head(batch.todo)])} :
          ai_calls' = ai_calls + (IF RunsAI(batch.cfg, kw.score) THEN 1 ELSE 0)
    /\ batch' = [batch EXCEPT !.todo = Tail(@),
                              !.attempted = Append(@, Head(batch.todo)),
                              !.failed = @ \cup {Head(batch.todo)}]
    /\ clock' = clock + 1
    /\ UNCHANGED <<jobs, notifications, scrape_runs, ret, prod, delivered, disp, pipe>>

\* score_batch returns
BatchReturn ==
    /\ batch.pc = "score" /\ batch.todo = <<>>
    /\ ret' = [op |-> "score_batch", cfg |-> batch.cfg, input |-> batch.input,
               attempted |-> batch.attempted, failed |-> batch.failed,
               ai_failed |-> batch.ai_failed]
    /\ batch' = IdleBatch
    /\ UNCHANGED <<jobs, notifications, scrape_runs, clock, prod, ai_calls, delivered, disp, pipe>>

BatchNext ==
    \/ clock < ScoreSeedClock + MaxBatchClock
          /\ \/ \E cfg \in ScoreConfigs : BatchStart(cfg)
             \/ BatchScore
             \/ BatchScoreRaises
    \/ BatchReturn

SpecBatch == InitScore /\ [][BatchNext]_vars

\* =================================================================== claims

\* C1: two consecutive calls upsert(P) of the same posting P return the same
\* id, the second reports is_new = FALSE, and the second adds no row.
C1_UpsertTwice ==
    [][(ret.op = "upsert_job" /\ ret'.op = "upsert_job" /\ clock' # clock
            /\ ret'.job = ret.job)
        => (ret'.id = ret.id /\ ret'.is_new = FALSE /\ Len(jobs') = Len(jobs))]_vars

\* Reached: the same posting was upserted twice in a row and is a stored row.
C1_Witness ==
    /\ ret.op = "upsert_job" /\ ret.again
    /\ ret.id \in Ids(jobs) /\ ~ret.is_new
    /\ jobs[ret.id].date_scraped = ret.job.date_scraped

\* The two producers' latest calls ran at the same time, for one URL
\* fingerprint that was stored when neither of them began.
RacedSameFingerprint ==
    /\ prod[1].pc = "done" /\ prod[2].pc = "done"
    /\ prod[1].u_hash = prod[2].u_hash
    /\ prod[1].fresh /\ prod[2].fresh
    /\ prod[1].overlaps = prod[2].call \/ prod[2].overlaps = prod[1].call

\* C2 (as claimed): when two producers interleave upserts of one URL
\* fingerprint, exactly one call returns is_new = TRUE, both return the same
\* id, and the store ends with exactly one row of that fingerprint.
C2_RaceOneRow ==
    RacedSameFingerprint =>
        /\ (prod[1].is_new /\ ~prod[2].is_new) \/ (~prod[1].is_new /\ prod[2].is_new)
        /\ prod[1].id = prod[2].id
        /\ Cardinality({i \in Ids(jobs) : jobs[i].url_hash = prod[1].u_hash}) = 1

\* C3: no two stored postings share a URL fingerprint, and no two stored
\* postings with an external id share (source, external id).
C3_UniqueIdentity ==
    \A i, j \in Ids(jobs) :
        i # j =>
            /\ jobs[i].url_hash # jobs[j].url_hash
            /\ (jobs[i].external_id # NULL =>
                    ~(jobs[i].source = jobs[j].source
                        /\ jobs[i].external_id = jobs[j].external_id))

\* Reached: several rows are stored, two of them of one source without an
\* external id, and the last upsert was turned away by a constraint.
C3_Witness ==
    /\ Len(jobs) >= 2
    /\ ret.op = "upsert_job" /\ ~ret.is_new /\ ret.id = 0

\* C4 (as claimed): upsert never returns an id that identifies no stored
\* posting, also when its INSERT hit a uniqueness violation.
C4_ReturnsStoredId ==
    ret.op = "upsert_job" => ret.id \in Ids(jobs)

\* C5: upsert of a posting whose URL fingerprint is stored changes only that
\* row's date_updated and is_active; every other column, row, receipt and
\* scrape-run record is unchanged, whatever the re-sighted posting carries.
C5_ResightFrame ==
    [][(ret'.op = "upsert_job" /\ clock' # clock
            /\ SelectIdByUrlHash(jobs, url_hash(ret'.job.url)) # 0)
        => LET id == SelectIdByUrlHash(jobs, url_hash(ret'.job.url))
           IN  /\ ret'.id = id /\ ret'.is_new = FALSE
               /\ Len(jobs') = Len(jobs)
               /\ \A i \in Ids(jobs) : i # id => jobs'[i] = jobs[i]
               /\ jobs'[id] = [jobs[id] EXCEPT !.date_updated = clock', !.is_active = 1]
               /\ notifications' = notifications
               /\ scrape_runs' = scrape_runs]_vars

\* Reached: a scored posting with a receipt was re-sighted under another
\* title, company and query group.
C5_Witness ==
    /\ ret.op = "upsert_job" /\ ret.id \in Ids(jobs) /\ ~ret.is_new
    /\ jobs[ret.id].combined_score # NoScore
    /\ jobs[ret.id].title # ret.job.title
    /\ jobs[ret.id].query_group # ret.job.query_group
    /\ notifications # <<>>

\* The thresholds a caller may pass to getUnnotified
MinScoreLevels == {0, ONE \div 2, (ONE * 7) \div 10, ONE}

ReceiptsOf(ns, id, ch) == {k \in 1..Len(ns) : ns[k].job_id = id /\ ns[k].channel = ch}

HasSentReceipt(ns, id, ch) == \E k \in ReceiptsOf(ns, id, ch) : ns[k].status = "sent"

\* C6: once a 'sent' receipt exists for (posting, channel), the receipt stays
\* and the posting is never again returned by getUnnotified(channel, m), for
\* any m, nor handed to that channel's adapter by a dispatcher run, whatever
\* upserts, score updates and receipts (also 'failed' ones) follow.
C6_SentNeverAgain ==
    [][\A id \in Ids(jobs), ch \in Channels :
          HasSentReceipt(notifications, id, ch) =>
              /\ HasSentReceipt(notifications', id, ch)
              /\ \A m \in MinScoreLevels :
                    id \notin Range(get_unnotified_jobs(jobs', notifications', ch, m))
              /\ (ret'.op = "send_all" /\ clock' # clock)
                    => id \notin Range(ret'.handed[ch])]_vars

\* Reached: a dispatcher run came after a posting above the threshold got a
\* 'sent' and then a 'failed' receipt on a channel that the run served.
C6_Witness ==
    /\ ret.op = "send_all"
    /\ \E id \in Ids(jobs), ch \in Channels :
          /\ ChannelAvailable(ret.cfg, ch)
          /\ jobs[id].combined_score # NoScore
          /\ jobs[id].combined_score[1] >= ret.cfg.min_score
          /\ \E k, l \in ReceiptsOf(notifications, id, ch) :
                k < l /\ notifications[k].status = "sent"
                      /\ notifications[l].status = "failed"

\* An active posting scored at least m whose receipts on the channel, if any,
\* are all 'failed'
FailedOnly(js, ns, id, ch, m) ==
    /\ js[id].is_active = 1
    /\ js[id].combined_score # NoScore
    /\ js[id].combined_score[1] >= m
    /\ \A k \in ReceiptsOf(ns, id, ch) : ns[k].status = "failed"

\* C7: an active posting with combined score >= m and only 'failed' receipts
\* on a channel is returned by getUnnotified(channel, m), and a send_all run
\* that serves the channel hands it to the channel's adapter again.
C7_FailedStaysEligible ==
    [][/\ \A id \in Ids(jobs'), ch \in Channels, m \in MinScoreLevels :
             FailedOnly(jobs', notifications', id, ch, m)
                 => id \in Range(get_unnotified_jobs(jobs', notifications', ch, m))
       /\ (ret'.op = "send_all" /\ clock' # clock)
             => \A id \in Ids(jobs), ch \in Channels :
                   (ChannelAvailable(ret'.cfg, ch)
                       /\ FailedOnly(jobs, notifications, id, ch, ret'.cfg.min_score))
                   => id \in Range(ret'.handed[ch])]_vars

\* Reached: a send_all run handed over a posting that already had a 'failed'
\* receipt on the channel, and it has only 'failed' receipts, two or more.
C7_Witness ==
    /\ ret.op = "send_all"
    /\ \E id \in Ids(jobs), ch \in Channels :
          /\ id \in Range(ret.handed[ch])
          /\ Cardinality(ReceiptsOf(notifications, id, ch)) >= 2
          /\ \A k \in ReceiptsOf(notifications, id, ch) :
                notifications[k].status = "failed"

\* C8 (as claimed): across send_all runs in which deliveries may fail, a
\* receipt write may fail or the run may stop between a delivery and the
\* recording of its receipt, the adapter delivers each (posting, channel)
\* pair at most once.
C8_DeliveredAtMostOnce ==
    \A i, j \in 1..Len(delivered) : delivered[i] = delivered[j] => i = j

\* The keyword score of stored posting id, as the keyword scorer computes it
KeywordScoreOf(js, id) ==
    keyword_score_job(js[id].title, js[id].description, js[id].location,
                      js[id].is_remote # 0).score

\* C9 as stated: score_job calls the AI scorer only for a posting whose
\* keyword score exceeds the configured minimum; for a posting whose keyword
\* score does not exceed it, the number of AI scorer calls is unchanged.
C9_AiOnlyAboveGate ==
    [][(ret'.op = "score_job" /\ clock' # clock
            /\ KeywordScoreOf(jobs, ret'.id) <= ret'.cfg.min_keyword_for_ai)
        => ai_calls' = ai_calls]_vars

\* C9 amended: score_job calls the AI scorer at most once, and only for a
\* posting whose keyword score is at least the configured minimum; for a
\* posting whose keyword score is below it, the number of AI scorer calls is
\* unchanged.
C9_AiOnlyAtOrAboveGate ==
    [][(ret'.op = "score_job" /\ clock' # clock)
        => /\ ai_calls' \in {ai_calls, ai_calls + 1}
           /\ ai_calls' # ai_calls
                 => KeywordScoreOf(jobs, ret'.id) >= ret'.cfg.min_keyword_for_ai
           /\ KeywordScoreOf(jobs, ret'.id) < ret'.cfg.min_keyword_for_ai
                 => ai_calls' = ai_calls]_vars

\* A posting scored exactly at the gate went to the AI scorer, after a posting
\* below the gate was scored with no AI call.
C9_Witness ==
    /\ ret.op = "score_job"
    /\ ret.ai_called
    /\ ai_calls = 1
    /\ KeywordScoreOf(jobs, ret.id) = ret.cfg.min_keyword_for_ai
    /\ \E id \in Ids(jobs) :
          /\ id # ret.id
          /\ jobs[id].keyword_score # NoScore
          /\ jobs[id].ai_score = NoScore

\* C10: when score_job has computed an AI score for a posting, the combined
\* score it stores is ai_weight * ai_score + keyword_weight * keyword_score
\* of the stored AI and keyword scores, with the configured weights; keyword
\* 0.8 and AI 0.4 under the default weights give 0.52.
C10_CombinedIsWeightedSum ==
    (ret.op = "score_job" /\ ret.ai_called)
        => LET row == jobs[ret.id]
           IN  /\ row.ai_score # NoScore
               /\ row.keyword_score = <<KeywordScoreOf(jobs, ret.id)>>
               /\ row.combined_score
                     = << (ret.cfg.ai_weight * row.ai_score[1]
                             + ret.cfg.keyword_weight * row.keyword_score[1]) \div 100 >>

\* Keyword 0.8 and AI 0.4 under the weights 0.7 and 0.3 were stored as 0.52.
C10_Witness ==
    /\ ret.op = "score_job"
    /\ ret.ai_called
    /\ ret.cfg.ai_weight = 70 /\ ret.cfg.keyword_weight = 30
    /\ jobs[ret.id].keyword_score = <<8000>>
    /\ jobs[ret.id].ai_score = <<4000>>
    /\ jobs[ret.id].combined_score = <<5200>>

\* The reasoning of the keyword scorer for stored posting id
KeywordReasoningOf(js, id) ==
    keyword_score_job(js[id].title, js[id].description, js[id].location,
                      js[id].is_remote # 0).reasoning

\* C11: when score_job has not computed an AI score for a posting, the
\* combined score it stores is the keyword score exactly and the reasoning
\* it stores is the keyword-only reasoning.
C11_KeywordOnlyCombined ==
    (ret.op = "score_job" /\ ~ret.ai_called)
        => LET row == jobs[ret.id]
           IN  /\ row.keyword_score = <<KeywordScoreOf(jobs, ret.id)>>
               /\ row.combined_score = row.keyword_score
               /\ row.score_reasoning = <<"Keywords">> \o KeywordReasoningOf(jobs, ret.id)

\* A posting that had been scored with the AI is scored again under the
\* default gate, which its keyword score does not clear.
C11_Witness ==
    /\ ret.op = "score_job"
    /\ ~ret.ai_called
    /\ use_ai(ret.cfg)
    /\ jobs[ret.id].ai_score # NoScore
    /\ jobs[ret.id].combined_score = <<1600>>

\* C12: in every reachable state every stored keyword score, AI score and
\* combined score lies in [0, 1].
C12_ScoresInUnitInterval ==
    \A id \in Ids(jobs) :
        \A s \in {jobs[id].keyword_score, jobs[id].ai_score, jobs[id].combined_score} :
            s # NoScore => (0 <= s[1] /\ s[1] <= ONE)

\* C13: when score_batch returns, every posting of the batch has been
\* attempted, in input order, whichever of them raised; every posting whose
\* scoring did not raise has a stored combined score, and every posting
\* whose scoring raised is still unscored.
C13_BatchIsolation ==
    ret.op = "score_batch"
        => /\ ret.attempted = ret.input
           /\ \A i \in 1..Len(ret.input) :
                 IF ret.input[i] \in ret.failed
                 THEN jobs[ret.input[i]].combined_score = NoScore
                 ELSE jobs[ret.input[i]].combined_score # NoScore

\* A batch of three in which the second posting raised and the first and the
\* third were scored.
C13_Witness ==
    /\ ret.op = "score_batch"
    /\ Len(ret.input) = 3
    /\ ret.failed = {ret.input[2]}
    /\ jobs[ret.input[1]].combined_score # NoScore
    /\ jobs[ret.input[3]].combined_score # NoScore

\* C14: update_scores sets exactly the score columns whose argument is
\* supplied, to the supplied value, and leaves the other score columns and
\* every other column of that row, and every other row, as they were.
C14_PartialUpdate ==
    [][(ret'.op = "update_scores" /\ clock' # clock)
        => LET id == ret'.id
               a == ret'.args
           IN  /\ Len(jobs') = Len(jobs)
               /\ \A j \in Ids(jobs) : j # id => jobs'[j] = jobs[j]
               /\ id \in Ids(jobs)
                     => /\ jobs'[id].keyword_score
                              = IF a.keyword_score # NoScore THEN a.keyword_score
                                ELSE jobs[id].keyword_score
                        /\ jobs'[id].ai_score
                              = IF a.ai_score # NoScore THEN a.ai_score
                                ELSE jobs[id].ai_score
                        /\ jobs'[id].combined_score
                              = IF a.combined_score # NoScore THEN a.combined_score
                                ELSE jobs[id].combined_score
                        /\ jobs'[id].score_reasoning
                              = IF a.score_reasoning # NoText THEN a.score_reasoning
                                ELSE jobs[id].score_reasoning
                        /\ jobs'[id] = [jobs[id] EXCEPT
                                          !.keyword_score = jobs'[id].keyword_score,
                                          !.ai_score = jobs'[id].ai_score,
                                          !.combined_score = jobs'[id].combined_score,
                                          !.score_reasoning = jobs'[id].score_reasoning]]_vars

\* update_scores(id, keyword_score = 0.6) alone on a posting that had an AI
\* score, a combined score and a reasoning: the three are still there.
C14_Witness ==
    /\ ret.op = "update_scores"
    /\ ret.id \in Ids(jobs)
    /\ ret.args.keyword_score = <<6000>>
    /\ ret.args.ai_score = NoScore /\ ret.args.combined_score = NoScore
    /\ jobs[ret.id].keyword_score = <<6000>>
    /\ jobs[ret.id].ai_score = <<4000>>
    /\ jobs[ret.id].combined_score = <<5200>>
    /\ jobs[ret.id].score_reasoning # NoText

\* The postings getUnnotified(ch, m) is to return: active, scored at m or
\* above, and without a 'sent' receipt of channel ch
Eligible(js, ns, ch, m) ==
    {i \in Ids(js) :
        /\ js[i].is_active = 1
        /\ js[i].combined_score # NoScore
        /\ js[i].combined_score[1] >= m
        /\ ~HasSentReceipt(ns, i, ch)}

\* C15: get_unnotified_jobs(channel, min_score) returns exactly the postings
\* that are active, have a combined score >= min_score and have no 'sent'
\* receipt of that channel, each once, in descending order of combined score.
C15_UnnotifiedExact ==
    \A ch \in Channels, m \in MinScoreLevels :
        LET r == get_unnotified_jobs(jobs, notifications, ch, m)
        IN  /\ Range(r) = Eligible(jobs, notifications, ch, m)
            /\ Len(r) = Cardinality(Range(r))
            /\ \A a, b \in 1..Len(r) :
                  a < b => jobs[r[a]].combined_score[1] >= jobs[r[b]].combined_score[1]

\* A dispatcher run handed the e-mail channel two postings in score order,
\* one of which has a 'sent' receipt of the discord channel; an unscored
\* posting is in the store.
C15_Witness ==
    /\ ret.op = "send_all"
    /\ Len(ret.handed.email) = 2
    /\ ret.handed.email = get_unnotified_jobs(jobs, <<>>, "email", ret.cfg.min_score)
    /\ jobs[ret.handed.email[1]].combined_score[1] > jobs[ret.handed.email[2]].combined_score[1]
    /\ \E id \in Range(ret.handed.email) : HasSentReceipt(notifications, id, "discord")
    /\ \E id \in Ids(jobs) : jobs[id].combined_score = NoScore

\* The postings that pass the filters of get_jobs: an unscored posting
\* passes every minimum score, a scored one iff its score is >= the minimum
Matching(js, a) ==
    {i \in Ids(js) :
        /\ js[i].is_active = 1
        /\ js[i].combined_score = NoScore \/ js[i].combined_score[1] >= a.min_score
        /\ a.status # NULL => js[i].user_status = a.status
        /\ a.source # NULL => js[i].source = a.source
        /\ a.group # NULL => js[i].query_group = a.group}

\* C16: get_jobs returns postings that pass its filters, where no posting
\* fails the minimum score for having no combined score; it returns all of
\* them or limit of them, each once, in descending order of combined score
\* with no score counted as zero, and no posting left out ranks above a
\* returned one.
C16_QueryInclusiveOrNull ==
    ret.op = "get_jobs"
        => LET r == ret.rows
               match == Matching(jobs, ret.args)
           IN  /\ Range(r) \subseteq match
               /\ Len(r) = Cardinality(Range(r))
               /\ Len(r) = min(ret.args.limit, Cardinality(match))
               /\ \A a, b \in 1..Len(r) :
                     a < b => CoalescedScore(jobs[r[a]]) >= CoalescedScore(jobs[r[b]])
               /\ \A i \in match \ Range(r), j \in Range(r) :
                     CoalescedScore(jobs[i]) <= CoalescedScore(jobs[j])

\* A query with minimum score 0.5 returned a posting scored 0.52 and, after
\* it, a posting with no score.
C16_Witness ==
    /\ ret.op = "get_jobs"
    /\ ret.args.min_score = 5000
    /\ Len(ret.rows) = 2
    /\ jobs[ret.rows[1]].combined_score = <<5200>>
    /\ jobs[ret.rows[2]].combined_score = NoScore

\* Strictly increasing maps from the entries of a result into the positions
\* of the input
Embeddings(n, m) ==
    {f \in [1..n -> 1..m] : \A a, b \in 1..n : a < b => f[a] < f[b]}

\* C17: upsert_jobs returns one (id, posting) per row it inserted: the
\* entries are postings of the input in input order, entry k carries the id
\* of the k-th new row and that row was written from entry k's posting, no
\* other row was added, no entry's URL fingerprint was stored before the
\* call, and no two entries share a URL fingerprint.
C17_BatchReportsNewRows ==
    [][(ret'.op = "upsert_jobs" /\ clock' # clock)
        => LET new == ret'.new_jobs
               inp == ret'.input
           IN  /\ Len(jobs') = Len(jobs) + Len(new)
               /\ \A i \in Ids(jobs) : jobs'[i].url_hash = jobs[i].url_hash
               /\ \E f \in Embeddings(Len(new), Len(inp)) :
                     \A k \in 1..Len(new) : inp[f[k]] = new[k].job
               /\ \A k \in 1..Len(new) :
                     /\ new[k].id = Len(jobs) + k
                     /\ jobs'[new[k].id].url = new[k].job.url
                     /\ jobs'[new[k].id].source = new[k].job.source
                     /\ jobs'[new[k].id].external_id = new[k].job.external_id
                     /\ jobs'[new[k].id].title = new[k].job.title
                     /\ \A i \in Ids(jobs) : jobs[i].url_hash # url_hash(new[k].job.url)
                     /\ \A l \in 1..Len(new) :
                           l # k => url_hash(new[l].job.url) # url_hash(new[k].job.url)]_vars

\* A batch of three on a store that held one posting: the first was
\* inserted and reported, the second was stored already and the third
\* repeats the first.
C17_Witness ==
    /\ ret.op = "upsert_jobs"
    /\ Len(ret.input) = 3
    /\ Len(ret.new_jobs) = 1
    /\ ret.new_jobs[1].job = ret.input[1]
    /\ ret.new_jobs[1].id = 2
    /\ Len(jobs) = 2

\* C18: receipts are append-only: every step keeps the receipts there are,
\* in place and unchanged, and a record_notification call adds exactly one
\* receipt, that of its arguments, at the end.
C18_ReceiptsAppendOnly ==
    [][/\ Len(notifications') >= Len(notifications)
       /\ SubSeq(notifications', 1, Len(notifications)) = notifications
       /\ (ret'.op = "record_notification" /\ clock' # clock)
             => /\ Len(notifications') = Len(notifications) + 1
                /\ notifications'[Len(notifications')].job_id = ret'.id
                /\ notifications'[Len(notifications')].channel = ret'.channel
                /\ notifications'[Len(notifications')].status = ret'.status]_vars

\* A second attempt for the same posting and channel was recorded: the
\* failed receipt of the first attempt is kept next to the sent one.
C18_Witness ==
    /\ ret.op = "record_notification"
    /\ \E k, l \in 1..Len(notifications) :
          /\ k < l
          /\ notifications[k].job_id = notifications[l].job_id
          /\ notifications[k].channel = notifications[l].channel
          /\ notifications[k].status = "failed"
          /\ notifications[l].status = "sent"

\* C19: when a send_all call ends, by returning or by an error raised while
\* a channel was processed, every available channel that has eligible
\* postings has had its adapter invoked in that call.
C19_ChannelsIndependent ==
    [][(ret'.op = "send_all_ended" /\ ret' # ret)
        => \A ch \in Range(AvailableChannels(ret'.cfg)) :
              \/ ch \in Range(ret'.invoked)
              \/ get_unnotified_jobs(jobs, notifications, ch, ret'.cfg.min_score) = <<>>]_vars

\* C20: a dispatcher run hands a posting to the discord adapter only if the
\* posting's combined score is at or above the discord channel's own
\* minimum score.
C20_ChannelMinScore ==
    ret.op = "send_all"
        => \A id \in Range(ret.handed.discord) :
              jobs[id].combined_score[1] >= ret.cfg.discord_min_score

\* C21: a failure of the AI call (an API error, a reply that is no JSON or
\* no JSON object) does not raise out of the AI scorer: when score_batch
\* returns, every posting whose AI call failed has the AI score 0.0 and a
\* combined score stored and is not among the postings whose scoring raised,
\* and every posting of the batch whose scoring did not raise has a stored
\* combined score.
C21_AiFailureIsSoft ==
    ret.op = "score_batch"
        => /\ ret.attempted = ret.input
           /\ \A id \in ret.ai_failed :
                 /\ id \notin ret.failed
                 /\ jobs[id].ai_score = <<0>>
                 /\ jobs[id].combined_score # NoScore
                 /\ Len(jobs[id].score_reasoning) > 1
           /\ \A id \in Range(ret.input) \ ret.failed :
                 jobs[id].combined_score # NoScore

\* A batch of three whose first posting's AI call failed: nothing raised and
\* all three postings are scored.
C21_Witness ==
    /\ ret.op = "score_batch"
    /\ Len(ret.input) = 3
    /\ ret.failed = {}
    /\ ret.input[1] \in ret.ai_failed
    /\ \A id \in Range(ret.input) : jobs[id].combined_score # NoScore

\* ------------------------------------------------------ the URL fingerprint
\* url_hash as a function of its argument alone: a bare URL (trimmed, lower
\* case, no trailing slash, no query string, no fragment) and a URL that
\* differs from it only by the decorations the normalization is to remove.
BareUrls == {U_x1, U_x2}

upper_char(c) ==
    IF \E i \in 1..Len(LowerCase) : LowerCase[i] = c
    THEN UpperCase[CHOOSE i \in 1..Len(LowerCase) : LowerCase[i] = c]
    ELSE c

upper(s) == [i \in 1..Len(s) |-> upper_char(s[i])]

UrlDecorations ==
    [upper : BOOLEAN, slash : BOOLEAN, query : BOOLEAN, fragment : BOOLEAN,
     leading : BOOLEAN, trailing : BOOLEAN]

Decorate(url, d) ==
    (IF d.leading THEN <<" ">> ELSE <<>>)
        \o (IF d.upper THEN upper(url) ELSE url)
        \o (IF d.slash THEN <<"/">> ELSE <<>>)
        \o (IF d.query THEN <<"?", "r">> ELSE <<>>)
        \o (IF d.fragment THEN <<"#", "f">> ELSE <<>>)
        \o (IF d.trailing THEN <<" ">> ELSE <<>>)

InitUrl ==
    /\ jobs = <<>>
    /\ notifications = <<>>
    /\ scrape_runs = <<>>
    /\ clock = 0
    /\ ret \in {[op |-> "url_input", bare |-> u, decorations |-> d, url |-> Decorate(u, d)] :
                    u \in BareUrls, d \in UrlDecorations}
    /\ prod = [k \in Producers |-> IdleProducer]
    /\ ai_calls = 0
    /\ delivered = <<>>
    /\ disp = IdleDispatcher
    /\ batch = IdleBatch
    /\ pipe = IdlePipeline

\* url_hash is applied to the bare URL and to the decorated one
UrlHash ==
    /\ ret.op = "url_input"
    /\ ret' = [op |-> "url_hash", bare |-> ret.bare, decorations |-> ret.decorations,
               url |-> ret.url, hash |-> url_hash(ret.url),
               bare_hash |-> url_hash(ret.bare)]
    /\ clock' = clock + 1
    /\ UNCHANGED <<jobs, notifications, scrape_runs, prod, ai_calls, delivered, disp, batch, pipe>>

UrlNext == UrlHash

SpecUrl == InitUrl /\ [][UrlNext]_vars

\* C22: url_hash gives a URL decorated with a query string, a fragment,
\* upper-case letters, a trailing slash, surrounding whitespace or any
\* combination of these the fingerprint of the bare URL.
C22_DecorationsCollide ==
    ret.op = "url_hash" => ret.hash = ret.bare_hash

\* ------------------------------------------------------------ the producers
\* What the job boards answer, and what the scrapers make of it.  Texts hold
\* single spaces and no HTML tags; the configuration has
\* fetch_full_descriptions off and one query of group "priority" without a
\* location.
MaxIngestClock == 3

\* s.find(sub) + 1 and s.rfind(sub) + 1: the place of sub in s, 0 if none
Find(sub, s) ==
    IF Contains(sub, s)
    THEN CHOOSE i \in 1..(Len(s) - Len(sub) + 1) :
            /\ SubSeq(s, i, i + Len(sub) - 1) = sub
            /\ \A k \in 1..(i - 1) : SubSeq(s, k, k + Len(sub) - 1) # sub
    ELSE 0

RFind(sub, s) ==
    IF Contains(sub, s)
    THEN CHOOSE i \in 1..(Len(s) - Len(sub) + 1) :
            /\ SubSeq(s, i, i + Len(sub) - 1) = sub
            /\ \A k \in (i + 1)..(Len(s) - Len(sub) + 1) :
                   SubSeq(s, k, k + Len(sub) - 1) # sub
    ELSE 0

StartsWith(s, prefix) == Len(s) >= Len(prefix) /\ SubSeq(s, 1, Len(prefix)) = prefix
From(s, i) == SubSeq(s, i, Len(s))

S_Unknown == <<"U", "n", "k", "n", "o", "w", "n">>
S_Remote == <<"R", "e", "m", "o", "t", "e">>
S_remote == <<"r", "e", "m", "o", "t", "e">>
S_is_hiring == <<" ", "i", "s", " ", "h", "i", "r", "i", "n", "g", " ">>
S_a == <<"a", " ">>
S_an == <<"a", "n", " ">>
S_to_work_from == <<" ", "t", "o", " ", "w", "o", "r", "k", " ", "f", "r", "o", "m", " ">>
S_at == <<" ", "a", "t", " ">>
S_dash == <<" ", "-", " ">>

DESIGN_KEYWORDS ==
    {<<"l", "e", "v", "e", "l", " ", "d", "e", "s", "i", "g", "n">>,
     <<"w", "o", "r", "l", "d", " ", "d", "e", "s", "i", "g", "n">>,
     <<"e", "n", "v", "i", "r", "o", "n", "m", "e", "n", "t", " ", "d", "e", "s", "i", "g", "n">>,
     <<"g", "a", "m", "e", " ", "d", "e", "s", "i", "g", "n">>,
     <<"l", "e", "v", "e", "l", " ", "d", "e", "s", "i", "g", "n", "e", "r">>,
     <<"w", "o", "r", "l", "d", " ", "d", "e", "s", "i", "g", "n", "e", "r">>,
     <<"e", "n", "v", "i", "r", "o", "n", "m", "e", "n", "t", " ", "d", "e", "s", "i", "g", "n", "e", "r">>,
     <<"g", "a", "m", "e", " ", "d", "e", "s", "i", "g", "n", "e", "r">>,
     <<"e", "n", "c", "o", "u", "n", "t", "e", "r", " ", "d", "e", "s", "i", "g", "n">>,
     <<"e", "n", "c", "o", "u", "n", "t", "e", "r", " ", "d", "e", "s", "i", "g", "n", "e", "r">>,
     <<"c", "o", "n", "t", "e", "n", "t", " ", "d", "e", "s", "i", "g", "n">>,
     <<"c", "o", "n", "t", "e", "n", "t", " ", "d", "e", "s", "i", "g", "n", "e", "r">>,
     <<"t", "e", "c", "h", "n", "i", "c", "a", "l", " ", "d", "e", "s", "i", "g", "n", "e", "r">>}

\* search.title_filters.exclude of the configuration
TitleExcludes == {T_Intern}

TitleExcluded(title) == \E ex \in TitleExcludes : Contains(lower(ex), lower(title))

\* re.match(r"^(.+?)\s+is hiring (?:a |an )?(.+?)(?:\s+to work from\s+.+)?$",
\*          title, re.IGNORECASE), then " at " and " - ": (company, title_clean)
HiringAt(title) ==
    LET i == Find(S_is_hiring, lower(title))
    IN  IF i >= 2 /\ i + Len(S_is_hiring) <= Len(title) THEN i ELSE 0

AfterArticle(rest) ==
    IF StartsWith(lower(rest), S_an) /\ Len(rest) > Len(S_an) THEN From(rest, Len(S_an) + 1)
    ELSE IF StartsWith(lower(rest), S_a) /\ Len(rest) > Len(S_a) THEN From(rest, Len(S_a) + 1)
    ELSE rest

BeforeWorkFrom(rest) ==
    LET j == Find(S_to_work_from, lower(rest))
    IN  IF j >= 2 /\ j + Len(S_to_work_from) <= Len(rest) THEN SubSeq(rest, 1, j - 1)
        ELSE rest

parse_title(title) ==
    IF HiringAt(title) # 0
    THEN [company |-> strip(SubSeq(title, 1, HiringAt(title) - 1)),
          title |-> strip(BeforeWorkFrom(AfterArticle(
                       From(title, HiringAt(title) + Len(S_is_hiring)))))]
    ELSE IF Contains(S_at, title)
    THEN [company |-> strip(From(title, RFind(S_at, title) + Len(S_at))),
          title |-> strip(SubSeq(title, 1, RFind(S_at, title) - 1))]
    ELSE IF Contains(S_dash, title)
    THEN [company |-> strip(From(title, Find(S_dash, title) + Len(S_dash))),
          title |-> strip(SubSeq(title, 1, Find(S_dash, title) - 1))]
    ELSE [company |-> S_Unknown, title |-> title]

\* strip_html of a text without tags
strip_html(html) == strip(html)

\* sha256(guid.encode()).hexdigest()[:16], taken to be collision free
sha256_16(guid) ==
    CASE guid = "g1" -> "sha256[:16] of g1"
      [] guid = "g2" -> "sha256[:16] of g2"
      [] guid = "g3" -> "sha256[:16] of g3"

\* WorkWithIndiesScraper.scrape, one entry of the feed: whether it is kept
\* (the keyword match and the exclusion filter), and the ScrapedJob built of it
wwi_combined_text(entry) == lower(entry.title \o <<" ">> \o entry.summary)

wwi_keeps(entry) ==
    /\ \E kw \in DESIGN_KEYWORDS : Contains(kw, wwi_combined_text(entry))
    /\ ~TitleExcluded(entry.title)

wwi_job(entry, at) ==
    [external_id |-> sha256_16(entry.id), source |-> "workwithindies",
     url |-> entry.link,
     title |-> parse_title(entry.title).title,
     company |-> parse_title(entry.title).company,
     location |-> IF Contains(S_remote, wwi_combined_text(entry)) THEN S_Remote ELSE NoText,
     is_remote |-> Contains(S_remote, wwi_combined_text(entry)),
     description |-> strip_html(entry.summary),
     query_group |-> "priority", date_scraped |-> at]

RECURSIVE wwi_scrape(_, _)
wwi_scrape(entries, at) ==
    IF entries = <<>> THEN <<>>
    ELSE (IF wwi_keeps(Head(entries)) THEN <<wwi_job(Head(entries), at)>> ELSE <<>>)
             \o wwi_scrape(Tail(entries), at)

\* JSearchScraper._parse_item: no ScrapedJob for an item without title or
\* URL, or with an excluded title
jsearch_url(item) ==
    IF item.job_apply_link # <<>> THEN item.job_apply_link ELSE item.job_google_link

jsearch_keeps(item) ==
    /\ item.job_title # <<>> /\ jsearch_url(item) # <<>>
    /\ ~TitleExcluded(item.job_title)

jsearch_job(item, at) ==
    [external_id |-> item.job_id, source |-> "jsearch", url |-> jsearch_url(item),
     title |-> item.job_title, company |-> item.employer_name,
     location |-> IF item.job_city # <<>> THEN item.job_city ELSE NoText,
     is_remote |-> item.job_is_remote, description |-> item.job_description,
     query_group |-> "priority", date_scraped |-> at]

RECURSIVE jsearch_scrape(_, _)
jsearch_scrape(items, at) ==
    IF items = <<>> THEN <<>>
    ELSE (IF jsearch_keeps(Head(items)) THEN <<jsearch_job(Head(items), at)>> ELSE <<>>)
             \o jsearch_scrape(Tail(items), at)

\* The feed of Work With Indies: a design job with a link, a design job
\* without a link, a job that is no design job.
T_AcmeHiring == <<"A", "c", "m", "e", " ", "i", "s", " ", "h", "i", "r", "i", "n", "g", " ", "a", " ", "L", "e", "v", "e", "l", " ", "D", "e", "s", "i", "g", "n", "e", "r", " ", "t", "o", " ", "w", "o", "r", "k", " ", "f", "r", "o", "m", " ", "R", "e", "m", "o", "t", "e">>
T_DesignerAtBeta == <<"G", "a", "m", "e", " ", "D", "e", "s", "i", "g", "n", "e", "r", " ", "a", "t", " ", "B", "e", "t", "a">>
D_remote_fun == <<"r", "e", "m", "o", "t", "e", " ", "f", "u", "n">>
E1 == [id |-> "g1", link |-> U_x1, title |-> T_AcmeHiring, summary |-> D_remote_fun]
E2 == [id |-> "g2", link |-> <<>>, title |-> T_DesignerAtBeta, summary |-> <<>>]
E3 == [id |-> "g3", link |-> U_x3, title |-> T_Tester, summary |-> D_fun]
Feeds == {<<E1, E2>>, <<E3, E1>>, <<E2>>}

\* The answers of JSearch: an item with an apply link, one with neither
\* link, one with the other link only, one with an excluded title.
J1 == [job_id |-> "e6", job_title |-> T_Tester, employer_name |-> S_Beta,
       job_apply_link |-> U_x6, job_google_link |-> <<>>, job_city |-> S_Oslo,
       job_is_remote |-> FALSE, job_description |-> D_fun]
J2 == [job_id |-> "e1", job_title |-> T_LevelDesigner, employer_name |-> S_Acme,
       job_apply_link |-> <<>>, job_google_link |-> <<>>, job_city |-> <<>>,
       job_is_remote |-> TRUE, job_description |-> <<>>]
J3 == [job_id |-> "e7", job_title |-> T_SeniorTechnicalDesigner, employer_name |-> S_Beta,
       job_apply_link |-> <<>>, job_google_link |-> U_x7, job_city |-> <<>>,
       job_is_remote |-> TRUE, job_description |-> D_skills]
J4 == [job_id |-> "e2", job_title |-> T_Intern, employer_name |-> S_Acme,
       job_apply_link |-> U_x2, job_google_link |-> <<>>, job_city |-> S_Paris,
       job_is_remote |-> FALSE, job_description |-> <<>>]
Pages == {<<J1, J2>>, <<J3, J4>>, <<J2>>}

\* ScraperManager.run_all for one scraper: the run is opened, the postings
\* scraped are handed to upsert_jobs, the run is closed with the counts
RunScraper(source, scraped) ==
    /\ \E r \in {upsert_jobs(jobs, scraped, clock + 1)} :
          /\ jobs' = r.jobs
          /\ scrape_runs' = complete_scrape_run(
                                start_scrape_run(scrape_runs, source, clock + 1),
                                Len(scrape_runs) + 1, Len(scraped), Len(r.new_jobs), 0,
                                clock + 1)
          /\ ret' = [op |-> "run_all", source |-> source, scraped |-> scraped,
                     new_jobs |-> r.new_jobs]
    /\ clock' = clock + 1
    /\ UNCHANGED <<notifications, prod, ai_calls, delivered, disp, batch, pipe>>

RunWorkWithIndies(entries) == RunScraper("workwithindies", wwi_scrape(entries, clock))

RunJSearch(items) == RunScraper("jsearch", jsearch_scrape(items, clock))

\* scraper.scrape raises: the query is skipped, the run is closed with 0 found
RunScrapeRaises(source) == RunScraper(source, <<>>)

IngestNext ==
    /\ clock < MaxIngestClock
    /\ \/ \E entries \in Feeds : RunWorkWithIndies(entries)
       \/ \E items \in Pages : RunJSearch(items)
       \/ \E source \in {"workwithindies", "jsearch"} : RunScrapeRaises(source)
       \/ \E job \in {Scraped(P1, clock), Scraped(P4, clock)} : Upsert(job)

SpecIngest == Init /\ [][IngestNext]_vars

\* C23: after any sequence of ingest runs and upsert calls the store holds
\* no posting with an empty URL.
C23_NoEmptyUrlStored ==
    \A i \in Ids(jobs) : jobs[i].url # <<>>

\* -------------------------------------------------------------- get_stats
MaxStatsClock == 4

\* The sum of a function's values
RECURSIVE SumOver(_)
SumOver(f) ==
    IF DOMAIN f = {} THEN 0
    ELSE LET k == CHOOSE k \in DOMAIN f : TRUE
         IN  f[k] + SumOver([x \in DOMAIN f \ {k} |-> f[x]])

\* SELECT col, COUNT(*) FROM jobs GROUP BY col
CountBySource(js) ==
    [s \in {js[i].source : i \in Ids(js)} |->
        Cardinality({i \in Ids(js) : js[i].source = s})]

CountByStatus(js) ==
    [s \in {js[i].user_status : i \in Ids(js)} |->
        Cardinality({i \in Ids(js) : js[i].user_status = s})]

ScoredIds(js) == {i \in Ids(js) : js[i].combined_score # NoScore}

\* The sum of the combined scores of the rows in ids
RECURSIVE SumOfScores(_, _)
SumOfScores(js, ids) ==
    IF ids = {} THEN 0
    ELSE LET i == CHOOSE i \in ids : TRUE
         IN  js[i].combined_score[1] + SumOfScores(js, ids \ {i})

\* round(total / n, 3) of a score in fixed point: the nearest thousandth,
\* a tie going to the even one
Round3(total, n) ==
    LET q == total \div (10 * n)
        rem == total % (10 * n)
    IN  10 * (IF 2 * rem < 10 * n THEN q
              ELSE IF 2 * rem > 10 * n THEN q + 1
              ELSE IF q % 2 = 0 THEN q ELSE q + 1)

\* As get_stats, but high_matches counts the scores above 0.7 only.
get_stats_above(js) ==
    [total |-> Len(js),
     active |-> Cardinality({i \in Ids(js) : js[i].is_active = 1}),
     scored |-> Cardinality(ScoredIds(js)),
     by_source |-> CountBySource(js),
     by_status |-> CountByStatus(js),
     avg_score |-> IF SumOfScores(js, ScoredIds(js)) = 0 THEN 0
                   ELSE Round3(SumOfScores(js, ScoredIds(js)), Cardinality(ScoredIds(js))),
     high_matches |-> Cardinality({i \in ScoredIds(js) : js[i].combined_score[1] > 7000})]

\* JobRepository.get_stats
get_stats(js) ==
    [total |-> Len(js),
     active |-> Cardinality({i \in Ids(js) : js[i].is_active = 1}),
     scored |-> Cardinality(ScoredIds(js)),
     by_source |-> CountBySource(js),
     by_status |-> CountByStatus(js),
     avg_score |-> IF SumOfScores(js, ScoredIds(js)) = 0 THEN 0
                   ELSE Round3(SumOfScores(js, ScoredIds(js)), Cardinality(ScoredIds(js))),
     high_matches |-> Cardinality({i \in ScoredIds(js) : js[i].combined_score[1] >= 7000})]

GetStats ==
    /\ ret' = [op |-> "get_stats", stats |-> get_stats(jobs)]
    /\ clock' = clock + 1
    /\ UNCHANGED <<jobs, notifications, scrape_runs, prod, ai_calls, delivered, disp, batch, pipe>>

\* Combined scores of scoring passes: 0.7 itself, the hybrid of AI 0.4 and
\* keyword 0.69, and a pass that stores nothing.
StatsScoreArgs ==
    {[keyword_score |-> <<7000>>, ai_score |-> NoScore, combined_score |-> <<7000>>,
      score_reasoning |-> <<"Keywords">>],
     [keyword_score |-> <<6900>>, ai_score |-> <<4000>>, combined_score |-> <<4870>>,
      score_reasoning |-> <<"AI", "|", "Keywords">>],
     [keyword_score |-> NoScore, ai_score |-> NoScore, combined_score |-> NoScore,
      score_reasoning |-> NoText]}

StatsNext ==
    /\ clock < SeedClock + MaxStatsClock
    /\ \/ GetStats
       \/ \E p \in {P3, P6} : Upsert(Scraped(p, clock))
       \/ \E id \in Ids(jobs), a \in StatsScoreArgs : UpdateScores(id, a)
       \/ \E id \in Ids(jobs), status \in {"applied", "rejected"} :
             SetUserStatus(id, status, NULL)

SpecStats == InitNotify /\ [][StatsNext]_vars

\* The counts of a summary read now agree with the stored postings.
StatsCountsAgree(stats) ==
    /\ stats.total = Len(jobs)
    /\ stats.active = Cardinality({i \in Ids(jobs) : jobs[i].is_active = 1})
    /\ stats.scored = Cardinality({i \in Ids(jobs) : jobs[i].combined_score # NoScore})
    /\ stats.high_matches =
           Cardinality({i \in Ids(jobs) :
                           /\ jobs[i].combined_score # NoScore
                           /\ jobs[i].combined_score[1] >= 7000})
    /\ SumOver(stats.by_source) = stats.total
    /\ SumOver(stats.by_status) = stats.total
    /\ (stats.scored = 0 => stats.avg_score = 0)

\* C24 as stated: the summary agrees with the stored postings, and avg_score
\* is the mean of the non-null combined scores.
C24_StatsAgreeExactMean ==
    ret.op = "get_stats"
        => /\ StatsCountsAgree(ret.stats)
           /\ ret.stats.avg_score * ret.stats.scored = SumOfScores(jobs, ScoredIds(jobs))

\* C24, amended: the summary agrees with the stored postings, and avg_score
\* is the mean of the non-null combined scores rounded to 3 decimals: a
\* whole number of thousandths at most half a thousandth from the mean.
C24_StatsAgreeRoundedMean ==
    ret.op = "get_stats"
        => /\ StatsCountsAgree(ret.stats)
           /\ ret.stats.avg_score % 10 = 0
           /\ LET n == ret.stats.scored
                  d == ret.stats.avg_score * n - SumOfScores(jobs, ScoredIds(jobs))
              IN  2 * d <= 10 * n /\ 2 * d >= -(10 * n)

\* A summary of a store with a score of exactly 0.7, an unscored posting, two
\* user statuses, and a mean that is no whole number of thousandths.
C24_Witness ==
    /\ ret.op = "get_stats"
    /\ ret.stats.high_matches >= 1
    /\ \E i \in Ids(jobs) : jobs[i].combined_score = <<7000>>
    /\ ret.stats.scored < ret.stats.total
    /\ SumOfScores(jobs, ScoredIds(jobs)) % (10 * ret.stats.scored) # 0

\* A channel that is enabled in the configuration but lacks a credential
LacksCredential(cfg, ch) ==
    IF ch = "discord" THEN cfg.discord_enabled /\ ~cfg.webhook_url
    ELSE cfg.email_enabled /\ ~cfg.smtp_credentials

\* C25: a channel that is enabled but lacks a required credential reports
\* is_available() = false, and a send_all run under that configuration hands
\* no posting to its adapter, delivers nothing on it and leaves the receipts
\* of the channel as they were.
C25_NoCredentialNoSend ==
    [][(ret'.op = "send_all" /\ clock' # clock)
          => \A ch \in Channels :
                LacksCredential(ret'.cfg, ch)
                    => /\ ~ChannelAvailable(ret'.cfg, ch)
                       /\ ret'.handed[ch] = <<>>
                       /\ SelectSeq(notifications', LAMBDA n : n.channel = ch)
                              = SelectSeq(notifications, LAMBDA n : n.channel = ch)
                       /\ SelectSeq(delivered', LAMBDA d : d[2] = ch)
                              = SelectSeq(delivered, LAMBDA d : d[2] = ch)]_vars

\* Reached: a run whose email channel lacks a credential served discord and
\* left alone a posting that is still unnotified on email.
C25_Witness ==
    /\ ret.op = "send_all"
    /\ LacksCredential(ret.cfg, "email")
    /\ ret.handed.discord # <<>>
    /\ ret.handed.email = <<>>
    /\ get_unnotified_jobs(jobs, notifications, "email", ret.cfg.min_score) # <<>>

\* The receipts a send_all call wrote for a posting on a channel
ReceiptsOfCall(ns, call, ended, id, ch) ==
    {k \in ReceiptsOf(ns, id, ch) : ns[k].sent_at > call /\ ns[k].sent_at <= ended}

\* C26: when a send_all call has ended, every posting it handed to an
\* adapter has exactly one receipt of that call on that channel, and the
\* receipt's status is the outcome of the message that carried the posting.
C26_OneReceiptPerHanded ==
    ret.op = "send_all_ended"
        => \A s \in Range(ret.sends) : \A r \in Range(s.results) :
              /\ Cardinality(ReceiptsOfCall(notifications, ret.call, ret.ended,
                                            r.job_id, s.channel)) = 1
              /\ \A k \in ReceiptsOfCall(notifications, ret.call, ret.ended,
                                         r.job_id, s.channel) :
                    notifications[k].status = IF r.success THEN "sent" ELSE "failed"

\* C27: after a score_job call on a posting the stored score fields all come
\* from that pass: the stored combined score is the weighted sum of the
\* stored AI and keyword scores when an AI score is stored and the stored
\* keyword score when none is, and a pass that computed no AI score leaves
\* no AI score stored.
C27_ScoresOfLatestPass ==
    ret.op = "score_job"
        => LET row == jobs[ret.id]
           IN  /\ row.ai_score # NoScore
                     => row.combined_score
                            = << (ret.cfg.ai_weight * row.ai_score[1]
                                    + ret.cfg.keyword_weight * row.keyword_score[1])
                                 \div 100 >>
               /\ row.ai_score = NoScore => row.combined_score = row.keyword_score
               /\ ~ret.ai_called => row.ai_score = NoScore

\* ------------------------------------------------- the seniority sub-score
\* _score_seniority as a function of title and description alone.
T_JuniorDesigner == <<"J", "u", "n", "i", "o", "r", " ", "D", "e", "s", "i", "g", "n", "e", "r">>
T_AssociateProducer == <<"A", "s", "s", "o", "c", "i", "a", "t", "e", " ", "P", "r", "o", "d", "u", "c", "e", "r">>
T_StaffIntern == <<"S", "t", "a", "f", "f", " ", "I", "n", "t", "e", "r", "n">>
T_Director == <<"D", "i", "r", "e", "c", "t", "o", "r">>
D_junior_role == <<"j", "u", "n", "i", "o", "r", " ", "r", "o", "l", "e">>
D_entry_level == <<"e", "n", "t", "r", "y", " ", "l", "e", "v", "e", "l">>
D_lead_the_team == <<"l", "e", "a", "d", " ", "t", "h", "e", " ", "t", "e", "a", "m">>
D_manager_ii == <<"m", "a", "n", "a", "g", "e", "r", " ", "i", "i">>

SeniorityTitles ==
    {T_Intern, T_Tester, T_LevelDesigner, T_SeniorTechnicalDesigner, T_JuniorDesigner,
     T_AssociateProducer, T_StaffIntern, T_Director}

SeniorityDescriptions ==
    {NoText, <<>>, D_fun, D_skills, D_junior_role, D_entry_level, D_lead_the_team,
     D_manager_ii}

InitSeniority ==
    /\ jobs = <<>>
    /\ notifications = <<>>
    /\ scrape_runs = <<>>
    /\ clock = 0
    /\ ret \in {[op |-> "seniority_input", title |-> title, description |-> description] :
                    title \in SeniorityTitles, description \in SeniorityDescriptions}
    /\ prod = [k \in Producers |-> IdleProducer]
    /\ ai_calls = 0
    /\ delivered = <<>>
    /\ disp = IdleDispatcher
    /\ batch = IdleBatch
    /\ pipe = IdlePipeline

ScoreSeniority ==
    /\ ret.op = "seniority_input"
    /\ ret' = [op |-> "score_seniority", title |-> ret.title,
               description |-> ret.description,
               score |-> score_seniority(ret.title, ret.description)]
    /\ clock' = clock + 1
    /\ UNCHANGED <<jobs, notifications, scrape_runs, prod, ai_calls, delivered, disp, batch, pipe>>

SeniorityNext == ScoreSeniority

SpecSeniority == InitSeniority /\ [][SeniorityNext]_vars

\* The places in SENIORITY_SCORES of the markers found in title and the
\* first 500 characters of the description
MarkersFound(title, description) ==
    {k \in 1..Len(SENIORITY_SCORES) :
        Contains(SENIORITY_SCORES[k][1],
                 lower(title \o <<" ">> \o Prefix(OrEmpty(description), 500)))}

\* C28: the seniority sub-score is the weight of the highest-ranked marker
\* found in the title and the first 500 characters of the description, and
\* 0.5 only if no marker is found: a posting whose only marker is 'junior'
\* or 'intern' gets 0.1 or 0.0.
C28_SeniorityIsBestMarker ==
    ret.op = "score_seniority"
        => LET found == MarkersFound(ret.title, ret.description)
           IN  IF found = {} THEN ret.score = ONE \div 2
               ELSE /\ \E k \in found : ret.score = SENIORITY_SCORES[k][2]
                    /\ \A k \in found : ret.score >= SENIORITY_SCORES[k][2]

\* C29: upsert_job of a posting whose URL fingerprint is not stored inserts a
\* new row and returns its id with is_new = true, whether or not a stored
\* posting has the same title+company fingerprint, and leaves every earlier
\* row unchanged.
C29_NewUrlAlwaysInserts ==
    [][(ret'.op = "upsert_job" /\ clock' # clock
            /\ SelectIdByUrlHash(jobs, url_hash(ret'.job.url)) = 0)
        => /\ ret'.is_new
           /\ Len(jobs') = Len(jobs) + 1
           /\ ret'.id = Len(jobs')
           /\ jobs'[ret'.id].url_hash = url_hash(ret'.job.url)
           /\ \A i \in Ids(jobs) : jobs'[i] = jobs[i]]_vars

\* ------------------------------------------- every operation on one store
\* A store in use: P1 and P4 scored, P6 not yet scored, and the operator has
\* marked P1 as applied with a note.
FrameSeedJobs ==
    set_user_status(upsert_job(SeedJobs, Scraped(P6, SeedClock), SeedClock + 1).jobs,
                    1, "applied", "note")

FrameSeedClock == Len(FrameSeedJobs) + 1

MaxFrameClock == 2

InitFrame ==
    /\ jobs = FrameSeedJobs
    /\ notifications = <<>>
    /\ scrape_runs = <<>>
    /\ clock = FrameSeedClock
    /\ ret = [op |-> "none"]
    /\ prod = [k \in Producers |-> IdleProducer]
    /\ ai_calls = 0
    /\ delivered = <<>>
    /\ disp = IdleDispatcher
    /\ batch = IdleBatch
    /\ pipe = IdlePipeline

FrameNext ==
    \/ clock < FrameSeedClock + MaxFrameClock
          /\ \/ \E p \in {P1, P7} : Upsert(Scraped(p, clock))
             \/ \E batch_jobs \in ScrapedBatches : UpsertJobs(batch_jobs)
             \/ \E entries \in Feeds : RunWorkWithIndies(entries)
             \/ \E id \in Ids(jobs), a \in ScoreArgs : UpdateScores(id, a)
             \/ \E id \in Ids(jobs), cfg \in ScoreConfigs :
                   ScoreJob(id, cfg, [kind |-> "api_error"])
             \/ \E cfg \in ScoreConfigs : BatchStart(cfg)
             \/ BatchScore
             \/ BatchScoreRaises
             \/ \E id \in Ids(jobs), ch \in Channels, st \in {"sent", "failed"} :
                   RecordNotification(id, ch, st)
             \/ \E cfg \in DispatchConfigs : SendAll(cfg)
             \/ StartScrapeRun("jsearch")
             \/ \E run_id \in 1..Len(scrape_runs) : CompleteScrapeRun(run_id, 2, 1)
             \/ \E run_id \in 1..Len(scrape_runs) : FailScrapeRun(run_id)
             \/ \E id \in Ids(jobs), status \in {"applied", "rejected"},
                   notes \in {NULL, "other note"} : SetUserStatus(id, status, notes)
    \/ BatchReturn

SpecFrame == InitFrame /\ [][FrameNext]_vars

\* C30: user_status and user_notes of a stored posting change only in a
\* set_user_status call for that posting, whatever upserts, score updates,
\* scoring passes, receipts, dispatcher runs and scrape-run operations are
\* made, and set_user_status called without notes leaves user_notes as it was.
C30_StatusOnlyByOperator ==
    [][/\ Len(jobs') >= Len(jobs)
       /\ \A i \in Ids(jobs) :
             (jobs'[i].user_status # jobs[i].user_status
                 \/ jobs'[i].user_notes # jobs[i].user_notes)
             => (ret'.op = "set_user_status" /\ ret' # ret /\ ret'.id = i)
       /\ (ret'.op = "set_user_status" /\ ret' # ret /\ ret'.notes = NULL)
             => jobs'[ret'.id].user_notes = jobs[ret'.id].user_notes]_vars

\* Reached: the posting marked with a note was given another status without
\* notes and was then sighted again; it has the new status and the old note.
C30_Witness ==
    /\ ret.op = "upsert_job" /\ ~ret.is_new /\ ret.id = 1
    /\ jobs[1].date_updated > FrameSeedClock
    /\ jobs[1].user_status = "rejected"
    /\ jobs[1].user_notes = "note"

\* ------------------------------------------- JSearch page fetch, with retry
\* scrape_runs of the JSearch producer, attempt by attempt.  The producer's
\* position is held in prod[1].  Every page holds fewer than results_per_page
\* items, so scrape fetches one page per query.
\* @retry(stop=stop_after_attempt(3), ...)
StopAfterAttempt == 3

MaxFetchQueries == 2
MaxFetchClock == 7

\* What requests.get and raise_for_status make of an attempt: a page of
\* items, or an exception: a timeout (requests.exceptions.Timeout), the
\* RequestException raised for status 429, or the HTTPError of
\* raise_for_status for another 4xx status (bad auth, malformed request).
FetchErrors == {"timeout", "rate_limit", "client_error"}

\* retry_if_exception_type(requests.exceptions.RequestException): Timeout and
\* HTTPError are subclasses of RequestException
IsRequestException(error) == error \in {"timeout", "rate_limit", "client_error"}

\* tenacity: another attempt is made if the exception is of the retried
\* type and fewer than StopAfterAttempt attempts were made
RetriesAfter(error, attempts) == IsRequestException(error) /\ attempts < StopAfterAttempt

\* run_all opens the run of the JSearch producer (line 47)
FetchRunStart ==
    /\ prod[1].pc = "idle"
    /\ scrape_runs' = start_scrape_run(scrape_runs, "jsearch", clock + 1)
    /\ prod' = [prod EXCEPT ![1] =
                  [pc |-> "query", run_id |-> Len(scrape_runs) + 1,
                   queries_left |-> MaxFetchQueries, total_found |-> 0, total_new |-> 0,
                   errors |-> <<>>]]
    /\ clock' = clock + 1
    /\ UNCHANGED <<jobs, notifications, ret, ai_calls, delivered, disp, batch, pipe>>

\* How a _fetch_page call ended: the errors of its failed attempts in order,
\* and the number of attempts made
FetchEnded(p, outcome, attempts) ==
    [op |-> "fetch_page_ended", run_id |-> p.run_id, outcome |-> outcome,
     errors |-> p.errors, attempts |-> attempts, queries_left |-> p.queries_left - 1]

\* An attempt of _fetch_page succeeds: scrape returns the page, run_all tags
\* and upserts the postings and adds to the counts (lines 64-80)
FetchSucceeds(items) ==
    /\ prod[1].pc = "query" /\ prod[1].queries_left > 0
    /\ \E r \in {upsert_jobs(jobs, jsearch_scrape(items, clock), clock + 1)} :
          /\ jobs' = r.jobs
          /\ prod' = [prod EXCEPT ![1] =
                        [@ EXCEPT !.queries_left = @ - 1, !.errors = <<>>,
                                  !.total_found = @ + Len(jsearch_scrape(items, clock)),
                                  !.total_new = @ + Len(r.new_jobs)]]
    /\ ret' = FetchEnded(prod[1], "returned", Len(prod[1].errors) + 1)
    /\ clock' = clock + 1
    /\ UNCHANGED <<notifications, scrape_runs, ai_calls, delivered, disp, batch, pipe>>

\* An attempt of _fetch_page raises and tenacity makes another attempt
FetchRetries(error) ==
    /\ prod[1].pc = "query" /\ prod[1].queries_left > 0
    /\ RetriesAfter(error, Len(prod[1].errors) + 1)
    /\ prod' = [prod EXCEPT ![1] = [@ EXCEPT !.errors = Append(@, error)]]
    /\ clock' = clock + 1
    /\ UNCHANGED <<jobs, notifications, scrape_runs, ret, ai_calls, delivered, disp, batch, pipe>>

\* An attempt of _fetch_page raises and no attempt follows: the exception
\* leaves scrape, run_all logs it and goes on with the next query (65-71)
FetchGivesUp(error) ==
    /\ prod[1].pc = "query" /\ prod[1].queries_left > 0
    /\ ~RetriesAfter(error, Len(prod[1].errors) + 1)
    /\ prod' = [prod EXCEPT ![1] = [@ EXCEPT !.queries_left = @ - 1, !.errors = <<>>]]
    /\ ret' = FetchEnded([prod[1] EXCEPT !.errors = Append(@, error)], "raised",
                         Len(prod[1].errors) + 1)
    /\ clock' = clock + 1
    /\ UNCHANGED <<jobs, notifications, scrape_runs, ai_calls, delivered, disp, batch, pipe>>

\* every query was processed: run_all closes the run (line 82)
FetchRunComplete ==
    /\ prod[1].pc = "query" /\ prod[1].queries_left = 0
    /\ scrape_runs' = complete_scrape_run(scrape_runs, prod[1].run_id,
                                          prod[1].total_found, prod[1].total_new, 0,
                                          clock + 1)
    /\ prod' = [prod EXCEPT ![1] = IdleProducer]
    /\ ret' = [op |-> "fetch_run_ended", run_id |-> prod[1].run_id]
    /\ clock' = clock + 1
    /\ UNCHANGED <<jobs, notifications, ai_calls, delivered, disp, batch, pipe>>

FetchNext ==
    /\ clock < MaxFetchClock
    /\ \/ FetchRunStart
       \/ \E items \in Pages : FetchSucceeds(items)
       \/ \E error \in FetchErrors : FetchRetries(error)
       \/ \E error \in FetchErrors : FetchGivesUp(error)
       \/ FetchRunComplete

SpecFetch == Init /\ [][FetchNext]_vars

\* C31: a page fetch is attempted at most 3 times, and no attempt follows
\* one that failed with a non-transient error (a 4xx status other than 429),
\* so a fetch failing that way is attempted exactly once.
C31_RetryTransientOnly ==
    ret.op = "fetch_page_ended"
        => /\ ret.attempts <= StopAfterAttempt
           /\ \A k \in 1..Len(ret.errors) :
                 ret.errors[k] = "client_error" => k = ret.attempts

\* C32: when a scrape run has completed and every posting it found is
\* stored, its audit record holds found = new + updated, updated being the
\* number of found postings that were stored already.
C32_FoundIsNewPlusUpdated ==
    (ret.op = "run_all"
        /\ \A k \in 1..Len(ret.scraped) :
              SelectIdByUrlHash(jobs, url_hash(ret.scraped[k].url)) # 0)
        => LET run == scrape_runs[Len(scrape_runs)]
           IN  /\ run.status = "completed"
               /\ run.jobs_found = Len(ret.scraped)
               /\ run.jobs_new = Len(ret.new_jobs)
               /\ run.jobs_updated = Len(ret.scraped) - Len(ret.new_jobs)
               /\ run.jobs_found = run.jobs_new + run.jobs_updated

\* ============================================== the scheduler's pipeline runs
\* job_scheduler._run_pipeline, one step per stage call: run_all, then
\* get_unscored_jobs and score_batch (one step per posting), then send_all
\* (per channel: the query, then the adapter's send_jobs with its receipts).

\* The largest number of firings of the cron job, and of runs at startup
MaxPipelineRuns == 2

\* What the producers find in a run
PipelineBatches == {<<P1, P6>>, <<P7, P1>>}

\* The configuration of the runs: scoring.engine hybrid with the default
\* weights and gate, both channels available, notification_threshold 0.5
PipelineScoreConfig ==
    [engine |-> "hybrid", api_key |-> TRUE, min_keyword_for_ai |-> 2000,
     ai_weight |-> 70, keyword_weight |-> 30]
PipelineNotifyConfig ==
    [discord_enabled |-> TRUE, webhook_url |-> TRUE,
     email_enabled |-> TRUE, smtp_credentials |-> TRUE,
     min_score |-> ONE \div 2, discord_min_score |-> (ONE * 6) \div 10]

\* What the AI service answers in a run: an error, or a JSON object
PipelineResponses ==
    {[kind |-> "api_error"],
     [kind |-> "json", score |-> 15000, reasoning |-> "great match"]}

\* A scoring error or a failed delivery can happen in every run but the
\* last one the model looks at: no failure lasts forever
MayFail(r) == pipe[r].runs + 1 < MaxPipelineRuns

\* start_scheduler: "initial_run" runs once, "scrape_pipeline" at every
\* firing of its cron trigger; max_instances=1 keeps a job from starting
\* while an instance of the same job id is executing
PipeStart(r) ==
    /\ pipe[r].pc = "idle"
    /\ pipe[r].runs < (IF r = "initial_run" THEN 1 ELSE MaxPipelineRuns)
    /\ pipe' = [pipe EXCEPT ![r] =
                    [pc |-> "ingest", runs |-> pipe[r].runs, new_jobs |-> {},
                     todo |-> <<>>, failed |-> {}, channels |-> <<>>,
                     handed |-> <<>>, offered |-> {}]]
    /\ UNCHANGED <<jobs, notifications, scrape_runs, clock, ret, prod, ai_calls,
                   delivered, disp, batch>>

\* lines 30-35: run_all, and line 41: the unscored postings are fetched
PipeIngest(r) ==
    /\ pipe[r].pc = "ingest"
    /\ \E found \in PipelineBatches :
          \E u \in {upsert_jobs(jobs, [i \in 1..Len(found) |-> Scraped(found[i], clock)],
                                clock + 1)} :
              /\ jobs' = u.jobs
              /\ scrape_runs' = complete_scrape_run(
                                    start_scrape_run(scrape_runs, "jsearch", clock + 1),
                                    Len(scrape_runs) + 1, Len(found), Len(u.new_jobs), 0,
                                    clock + 1)
              /\ pipe' = [pipe EXCEPT
                            ![r].pc = "score",
                            ![r].new_jobs = {u.new_jobs[i].id : i \in 1..Len(u.new_jobs)},
                            ![r].todo = get_unscored_jobs(u.jobs)]
    /\ clock' = clock + 1
    /\ UNCHANGED <<notifications, ret, prod, ai_calls, delivered, disp, batch>>

\* score_batch, lines 76-83: score_job of the next posting returns.  A row
\* another run has scored in the meantime is scored again.
PipeScore(r) ==
    /\ pipe[r].pc = "score" /\ pipe[r].todo # <<>>
    /\ \E response \in PipelineResponses :
          \E s \in {score_job(jobs, Head(pipe[r].todo), PipelineScoreConfig, response)} :
              /\ jobs' = s.jobs
              /\ ai_calls' = ai_calls + (IF s.ai_called THEN 1 ELSE 0)
    /\ pipe' = [pipe EXCEPT ![r].todo = Tail(@)]
    /\ clock' = clock + 1
    /\ UNCHANGED <<notifications, scrape_runs, ret, prod, delivered, disp, batch>>

\* score_batch, lines 80-82: score_job of the next posting raises, the error
\* is logged and the posting stays unscored
PipeScoreRaises(r) ==
    /\ pipe[r].pc = "score" /\ pipe[r].todo # <<>>
    /\ MayFail(r)
    /\ pipe' = [pipe EXCEPT ![r].todo = Tail(@),
                            ![r].failed = @ \cup {Head(pipe[r].todo)}]
    /\ clock' = clock + 1
    /\ UNCHANGED <<jobs, notifications, scrape_runs, ret, prod, ai_calls, delivered,
                   disp, batch>>

\* lines 48-49: send_all begins with the channels that are available
PipeScored(r) ==
    /\ pipe[r].pc = "score" /\ pipe[r].todo = <<>>
    /\ pipe' = [pipe EXCEPT ![r].pc = "notify",
                            ![r].channels = AvailableChannels(PipelineNotifyConfig)]
    /\ UNCHANGED <<jobs, notifications, scrape_runs, clock, ret, prod, ai_calls,
                   delivered, disp, batch>>

\* _send_channel, lines 34-40: the un-notified postings of the next channel
PipeRead(r) ==
    /\ pipe[r].pc = "notify" /\ pipe[r].channels # <<>>
    /\ \E ids \in {get_unnotified_jobs(jobs, notifications, Head(pipe[r].channels),
                                       PipelineNotifyConfig.min_score)} :
          pipe' = [pipe EXCEPT
                     ![r].pc = IF ids = <<>> THEN "notify" ELSE "send",
                     ![r].channels = IF ids = <<>> THEN Tail(@) ELSE @,
                     ![r].handed = ids,
                     ![r].offered = @ \cup {<<ids[i], Head(pipe[r].channels)>> :
                                               i \in 1..Len(ids)}]
    /\ UNCHANGED <<jobs, notifications, scrape_runs, clock, ret, prod, ai_calls,
                   delivered, disp, batch>>

\* _send_channel, lines 48-56: the adapter sends what it was handed, and a
\* receipt is written for each result
PipeSend(r) ==
    /\ pipe[r].pc = "send"
    /\ \E ok \in (IF MayFail(r) THEN BOOLEAN ELSE {TRUE}) :
          LET ch == Head(pipe[r].channels)
              results == IF ch = "discord"
                         THEN discord_send_jobs(pipe[r].handed, TRUE,
                                  [b \in 1..NumBatches(Len(pipe[r].handed)) |-> ok])
                         ELSE email_send_jobs(pipe[r].handed, TRUE, ok)
          IN  /\ notifications' = RecordResults(notifications, results, ch, clock + 1)
              /\ delivered' = delivered \o Deliveries(results, ch)
    /\ pipe' = [pipe EXCEPT ![r].pc = "notify", ![r].channels = Tail(@),
                            ![r].handed = <<>>]
    /\ clock' = clock + 1
    /\ UNCHANGED <<jobs, scrape_runs, ret, prod, ai_calls, disp, batch>>

\* lines 51-52: the run is over
PipeEnd(r) ==
    /\ pipe[r].pc = "notify" /\ pipe[r].channels = <<>>
    /\ ret' = [op |-> "pipeline_ended", job |-> r, run |-> pipe[r].runs + 1,
               new_jobs |-> pipe[r].new_jobs, failed |-> pipe[r].failed,
               offered |-> pipe[r].offered]
    /\ pipe' = [pipe EXCEPT ![r] = [pc |-> "idle", runs |-> pipe[r].runs + 1]]
    /\ UNCHANGED <<jobs, notifications, scrape_runs, clock, prod, ai_calls, delivered,
                   disp, batch>>

PipeStep(r) ==
    \/ PipeStart(r)
    \/ PipeIngest(r)
    \/ PipeScore(r)
    \/ PipeScoreRaises(r)
    \/ PipeScored(r)
    \/ PipeRead(r)
    \/ PipeSend(r)
    \/ PipeEnd(r)

\* The cron job alone: one run after the other
PipelineNext == PipeStep("scrape_pipeline")

\* The scheduler fires a job whenever its trigger is due, and every stage
\* call of a run returns: weak fairness of the steps of a run.  For run_all
\* and score_job, ENABLED is written out as the guard of the step.
PipelineFairness(r) ==
    /\ WF_vars(PipeStart(r) \/ PipeScored(r) \/ PipeRead(r) \/ PipeSend(r) \/ PipeEnd(r))
    /\ \/ []<>(pipe[r].pc # "ingest")
       \/ []<><<PipeIngest(r)>>_vars
    /\ \/ []<>~(pipe[r].pc = "score" /\ pipe[r].todo # <<>>)
       \/ []<><<PipeScore(r) \/ PipeScoreRaises(r)>>_vars

SpecPipeline == Init /\ [][PipelineNext]_vars /\ PipelineFairness("scrape_pipeline")

\* Every stored posting has a combined score, and every one scored at or
\* above the notification threshold a 'sent' receipt on each available channel
Settled ==
    \A id \in Ids(jobs) :
        /\ jobs[id].combined_score # NoScore
        /\ jobs[id].combined_score[1] >= PipelineNotifyConfig.min_score
              => \A ch \in Range(AvailableChannels(PipelineNotifyConfig)) :
                    HasSentReceipt(notifications, id, ch)

MaxScheduledRuns == 1

SchedulerNext ==
    \E r \in SchedulerJobs :
        /\ pipe[r].pc = "idle" => pipe[r].runs < MaxScheduledRuns
        /\ PipeStep(r)

SpecScheduler == Init /\ [][SchedulerNext]_vars

\* The jobs that are inside _run_pipeline
Executing == {r \in SchedulerJobs : pipe[r].pc # "idle"}

\* C40: At most one pipeline run executes at any time (a scheduled run never
\* starts while the startup run is still executing), and no posting is
\* delivered twice on a channel by two runs that both read it as un-notified.
C40_OneRunAtATime ==
    /\ Cardinality(Executing) <= 1
    /\ \A i, j \in 1..Len(delivered) : delivered[i] = delivered[j] => i = j

\* ========================================= a process that stops, and restarts
\* The pipeline over one connection, one step per statement and per commit.
\* jobs and notifications are what the connection sees, its open transaction
\* included; durable is what the database file holds, which is all that is
\* left when the process stops.

\* The largest number of runs, each ended by a stop or by its last call
MaxCrashRuns == 2

\* conn.commit(): what the connection sees becomes what the file holds
commit_deferred(durable, js, ns) == durable

commit(durable, js, ns) == [jobs |-> js, notifications |-> ns]

\* _run_pipeline begins: init_db opens the file, run_all hands the postings
\* found to upsert_jobs
CrashStart(r) ==
    /\ pipe[r].pc = "idle" /\ pipe[r].runs < MaxCrashRuns
    /\ \E found \in PipelineBatches :
          pipe' = [pipe EXCEPT ![r] =
                     [pc |-> "upsert", runs |-> pipe[r].runs,
                      found |-> [i \in 1..Len(found) |-> Scraped(found[i], clock)],
                      todo |-> <<>>, channels |-> <<>>, results |-> <<>>,
                      inflight |-> <<>>, returned |-> <<>>,
                      durable |-> [jobs |-> jobs, notifications |-> notifications]]]
    /\ ret' = [op |-> "run_started"]
    /\ UNCHANGED <<jobs, notifications, scrape_runs, clock, prod, ai_calls,
                   delivered, disp, batch>>

\* upsert_job, lines 26-76: the SELECT and the UPDATE or INSERT of the next
\* posting (after an IntegrityError the transaction is rolled back instead)
UpsertExecute(r) ==
    /\ pipe[r].pc = "upsert" /\ pipe[r].found # <<>> /\ pipe[r].inflight = <<>>
    /\ \E u \in {upsert_job(jobs, Head(pipe[r].found), clock + 1)} :
          /\ jobs' = u.jobs
          /\ pipe' = [pipe EXCEPT ![r].inflight =
                        <<[kind |-> "job", id |-> u.id, data |-> Head(pipe[r].found).url]>>]
    /\ clock' = clock + 1
    /\ UNCHANGED <<notifications, scrape_runs, ret, prod, ai_calls, delivered, disp, batch>>

\* score_job of the next unscored posting, up to the UPDATE of update_scores
ScoreExecute(r) ==
    /\ pipe[r].pc = "score" /\ pipe[r].todo # <<>> /\ pipe[r].inflight = <<>>
    /\ \E response \in PipelineResponses :
          \E s \in {score_job(jobs, Head(pipe[r].todo), PipelineScoreConfig, response)} :
              /\ jobs' = s.jobs
              /\ ai_calls' = ai_calls + (IF s.ai_called THEN 1 ELSE 0)
              /\ pipe' = [pipe EXCEPT ![r].inflight =
                            <<[kind |-> "score", id |-> Head(pipe[r].todo),
                               data |-> s.jobs[Head(pipe[r].todo)].combined_score]>>]
    /\ clock' = clock + 1
    /\ UNCHANGED <<notifications, scrape_runs, ret, prod, delivered, disp, batch>>

\* record_notification, lines 270-273: the INSERT of the next receipt
RecordExecute(r) ==
    /\ pipe[r].pc = "record" /\ pipe[r].results # <<>> /\ pipe[r].inflight = <<>>
    /\ notifications' = RecordResults(notifications, <<Head(pipe[r].results)>>,
                                      Head(pipe[r].channels), clock + 1)
    /\ pipe' = [pipe EXCEPT ![r].inflight =
                  <<[kind |-> "receipt", id |-> Len(notifications) + 1,
                     data |-> <<Head(pipe[r].results).job_id, Head(pipe[r].channels),
                                IF Head(pipe[r].results).success
                                THEN "sent" ELSE "failed">>]>>]
    /\ clock' = clock + 1
    /\ UNCHANGED <<jobs, scrape_runs, ret, prod, ai_calls, delivered, disp, batch>>

\* self.conn.commit() at the end of upsert_job, update_scores and
\* record_notification: the store call returns
WriteCommit(r) ==
    /\ pipe[r].pc \in {"upsert", "score", "record"} /\ pipe[r].inflight # <<>>
    /\ pipe' = [pipe EXCEPT
                  ![r].durable = commit(@, jobs, notifications),
                  ![r].returned = @ \o pipe[r].inflight,
                  ![r].inflight = <<>>,
                  ![r].found = IF pipe[r].pc = "upsert" THEN Tail(@) ELSE @,
                  ![r].todo = IF pipe[r].pc = "score" THEN Tail(@) ELSE @,
                  ![r].results = IF pipe[r].pc = "record" THEN Tail(@) ELSE @]
    /\ UNCHANGED <<jobs, notifications, scrape_runs, clock, ret, prod, ai_calls,
                   delivered, disp, batch>>

\* upsert_jobs has returned: the unscored postings go to score_batch
UpsertDone(r) ==
    /\ pipe[r].pc = "upsert" /\ pipe[r].found = <<>>
    /\ pipe' = [pipe EXCEPT ![r].pc = "score", ![r].todo = get_unscored_jobs(jobs)]
    /\ UNCHANGED <<jobs, notifications, scrape_runs, clock, ret, prod, ai_calls,
                   delivered, disp, batch>>

\* score_batch has returned: send_all begins
ScoreDone(r) ==
    /\ pipe[r].pc = "score" /\ pipe[r].todo = <<>>
    /\ pipe' = [pipe EXCEPT ![r].pc = "send",
                            ![r].channels = AvailableChannels(PipelineNotifyConfig)]
    /\ UNCHANGED <<jobs, notifications, scrape_runs, clock, ret, prod, ai_calls,
                   delivered, disp, batch>>

\* _send_channel, lines 34-48: the query and the adapter's send_jobs
CrashSend(r) ==
    /\ pipe[r].pc = "send" /\ pipe[r].channels # <<>>
    /\ \E ids \in {get_unnotified_jobs(jobs, notifications, Head(pipe[r].channels),
                                       PipelineNotifyConfig.min_score)} :
          IF ids = <<>>
          THEN /\ pipe' = [pipe EXCEPT ![r].channels = Tail(@)]
               /\ delivered' = delivered
          ELSE \E ok \in BOOLEAN :
                  \E results \in
                        {IF Head(pipe[r].channels) = "discord"
                         THEN discord_send_jobs(ids, TRUE,
                                  [b \in 1..NumBatches(Len(ids)) |-> ok])
                         ELSE email_send_jobs(ids, TRUE, ok)} :
                      /\ delivered' = delivered
                                        \o Deliveries(results, Head(pipe[r].channels))
                      /\ pipe' = [pipe EXCEPT ![r].pc = "record",
                                              ![r].results = results]
    /\ UNCHANGED <<jobs, notifications, scrape_runs, clock, ret, prod, ai_calls,
                   disp, batch>>

\* every result of the channel has its receipt
RecordDone(r) ==
    /\ pipe[r].pc = "record" /\ pipe[r].results = <<>>
    /\ pipe' = [pipe EXCEPT ![r].pc = "send", ![r].channels = Tail(@)]
    /\ UNCHANGED <<jobs, notifications, scrape_runs, clock, ret, prod, ai_calls,
                   delivered, disp, batch>>

\* send_all has returned and conn.close() ends the run
CrashEnd(r) ==
    /\ pipe[r].pc = "send" /\ pipe[r].channels = <<>>
    /\ pipe' = [pipe EXCEPT ![r] = [pc |-> "idle", runs |-> pipe[r].runs + 1]]
    /\ UNCHANGED <<jobs, notifications, scrape_runs, clock, ret, prod, ai_calls,
                   delivered, disp, batch>>

\* The process stops (it is killed, or the machine goes down) and is started
\* again: the open transaction is gone, the file holds what was committed.
\* returned are the writes whose store call had returned, inflight the one
\* whose call had not, view what the connection saw.
CrashStop(r) ==
    /\ pipe[r].pc # "idle"
    /\ jobs' = pipe[r].durable.jobs
    /\ notifications' = pipe[r].durable.notifications
    /\ ret' = [op |-> "stopped", during |-> pipe[r].pc,
               returned |-> pipe[r].returned, inflight |-> pipe[r].inflight,
               view |-> [jobs |-> jobs, notifications |-> notifications]]
    /\ pipe' = [pipe EXCEPT ![r] = [pc |-> "idle", runs |-> pipe[r].runs + 1]]
    /\ UNCHANGED <<scrape_runs, clock, prod, ai_calls, delivered, disp, batch>>

CrashStep(r) ==
    \/ CrashStart(r)
    \/ UpsertExecute(r)
    \/ ScoreExecute(r)
    \/ RecordExecute(r)
    \/ WriteCommit(r)
    \/ UpsertDone(r)
    \/ ScoreDone(r)
    \/ CrashSend(r)
    \/ RecordDone(r)
    \/ CrashEnd(r)
    \/ CrashStop(r)

CrashNext == CrashStep("scrape_pipeline")

SpecCrash == Init /\ [][CrashNext]_vars

\* The write e, as it was when its store call returned, is in the store
Present(e) ==
    IF e.kind = "job"
    THEN e.id \in Ids(jobs) /\ jobs[e.id].url = e.data
    ELSE IF e.kind = "score"
    THEN e.id \in Ids(jobs) /\ jobs[e.id].combined_score = e.data
    ELSE /\ e.id \in 1..Len(notifications)
         /\ <<notifications[e.id].job_id, notifications[e.id].channel,
              notifications[e.id].status>> = e.data

\* C34: When the process stops during upsert_jobs, score_batch or the receipt
\* recording of send_all, every posting insert, score update and receipt
\* whose store call had returned is in the store after the restart; at most
\* one write, the one in flight, is lost, and without one the store is what
\* it was.
C34_ReturnedWritesSurvive ==
    ret.op = "stopped"
        => /\ \A k \in 1..Len(ret.returned) : Present(ret.returned[k])
           /\ Len(ret.inflight) <= 1
           /\ ret.inflight = <<>>
                 => jobs = ret.view.jobs /\ notifications = ret.view.notifications
           /\ Len(ret.view.jobs) - Len(jobs)
                 + Len(ret.view.notifications) - Len(notifications) <= 1

\* The process stopped while the second receipt of a channel was in flight:
\* two inserts, a score update and a receipt had returned before
C34_Witness ==
    /\ ret.op = "stopped" /\ ret.during = "record"
    /\ ret.inflight # <<>>
    /\ \E i, j, k \in 1..Len(ret.returned) :
          /\ ret.returned[i].kind = "job"
          /\ ret.returned[j].kind = "score"
          /\ ret.returned[k].kind = "receipt"
    /\ Len(notifications) < Len(ret.view.notifications)

\* ============================================ the description in the AI prompt
\* _build_prompt: truncate(description or "No description available", 3000)
PromptDescriptionLimit == 3000

S_No_description_available ==
    <<"N", "o", " ", "d", "e", "s", "c", "r", "i", "p", "t", "i", "o", "n", " ",
      "a", "v", "a", "i", "l", "a", "b", "l", "e">>
S_Ellipsis == <<".", ".", ".">>

\* str.rfind(" "): the index, counted from 0, of the last space, or -1
rfind_space(s) ==
    LET at == {i \in 1..Len(s) : s[i] = " "}
    IN  IF at = {} THEN -1 ELSE (CHOOSE i \in at : \A j \in at : j <= i) - 1

\* utils.text_processing.truncate; last_space > max_length * 0.8 is compared
\* in tenths
truncate(text, max_length) ==
    IF text = NoText \/ text = <<>> \/ Len(text) <= max_length THEN text
    ELSE LET truncated == SubSeq(text, 1, max_length)
             last_space == rfind_space(truncated)
         IN  (IF last_space * 10 > max_length * 8
              THEN SubSeq(truncated, 1, last_space)
              ELSE truncated) \o S_Ellipsis

\* description or "No description available"
OrNoDescription(description) ==
    IF description = NoText \/ description = <<>>
    THEN S_No_description_available ELSE description

\* desc_truncated of _build_prompt
desc_truncated(description) ==
    truncate(OrNoDescription(description), PromptDescriptionLimit)

\* Descriptions: n letters with spaces at the places given
DescriptionLengths == {0, 10, 2401, 2999, 3000, 3001, 3002, 3004, 3600}
SpacePlaces ==
    {{}, {5}, {2400}, {2401}, {2402}, {2999}, {3000}, {3001}, {3002},
     {100, 2500}, {2401, 3002}, {2402, 3001}, {7, 2700, 2900}}
Description(n, places) == [i \in 1..n |-> IF i \in places THEN " " ELSE "a"]

InitPrompt ==
    /\ jobs = <<>>
    /\ notifications = <<>>
    /\ scrape_runs = <<>>
    /\ clock = 0
    /\ ret \in {[op |-> "description", description |-> Description(n, places)] :
                  n \in DescriptionLengths, places \in SpacePlaces}
               \cup {[op |-> "description", description |-> NoText]}
    /\ prod = [k \in Producers |-> IdleProducer]
    /\ ai_calls = 0
    /\ delivered = <<>>
    /\ disp = IdleDispatcher
    /\ batch = IdleBatch
    /\ pipe = IdlePipeline

BuildPrompt ==
    /\ ret.op = "description"
    /\ ret' = [op |-> "build_prompt", description |-> ret.description,
               embedded |-> desc_truncated(ret.description)]
    /\ UNCHANGED <<jobs, notifications, scrape_runs, clock, prod, ai_calls, delivered,
                   disp, batch, pipe>>

PromptNext == BuildPrompt

SpecPrompt == InitPrompt /\ [][PromptNext]_vars

\* Where the description is cut: at the last space of its first 3000
\* characters when that space lies past 80% of the limit, else at the limit
CutPoint(description) ==
    LET at == {i \in 1..PromptDescriptionLimit : description[i] = " "}
        last == IF at = {} THEN 0 ELSE CHOOSE i \in at : \A j \in at : j <= i
    IN  IF (last - 1) * 10 > PromptDescriptionLimit * 8
        THEN last - 1 ELSE PromptDescriptionLimit

\* C35: The description embedded in the AI prompt is at most 3000 characters
\* long; a description of at most 3000 characters is embedded unchanged, and
\* a longer one is cut at the last space before position 3000 when that
\* space lies past position 2400, otherwise at position 3000.
C35_EmbeddedAtMostLimit ==
    (ret.op = "build_prompt" /\ ret.description # NoText /\ ret.description # <<>>)
        => /\ Len(ret.embedded) <= PromptDescriptionLimit
           /\ Len(ret.description) <= PromptDescriptionLimit
                 => ret.embedded = ret.description
           /\ Len(ret.description) > PromptDescriptionLimit
                 => ret.embedded = SubSeq(ret.description, 1, CutPoint(ret.description))

\* C36: No store operation sets a posting's active flag to false or removes a
\* posting: through upserts, score updates, status changes, receipts and
\* scrape-run operations every stored posting stays the row it was and is
\* active, the ids only grow, and the active count equals the total count.
C36_NeverDeactivated ==
    [][/\ Len(jobs') >= Len(jobs)
       /\ \A i \in Ids(jobs) : jobs'[i].url_hash = jobs[i].url_hash
       /\ \A i \in Ids(jobs') : jobs'[i].is_active = 1
       /\ Cardinality({i \in Ids(jobs') : jobs'[i].is_active = 1}) = Len(jobs')]_vars

\* Reached: a posting ingested after the seed was marked 'rejected'; it is
\* stored and active
C36_Witness ==
    /\ ret.op = "set_user_status" /\ ret.id > Len(FrameSeedJobs)
    /\ jobs[ret.id].user_status = "rejected"
    /\ jobs[ret.id].is_active = 1

\* The postings that were scored while the AI call failed
AiFailed(js) ==
    {i \in Ids(js) : /\ js[i].score_reasoning # NoText
                     /\ Len(js[i].score_reasoning) >= 2
                     /\ js[i].score_reasoning[2] = "AI scoring failed (API error)"}

MaxRunAllClock == 9

\* self.scrapers, and the query groups of the configuration with one query
\* and one location each
RunAllSources == <<"workwithindies", "jsearch">>
QueryGroups == <<"priority", "us_canada">>

\* What a query finds
QueryResults == {<<P1>>, <<P6, P1>>}

\* The posting as scraper `source` builds it, tagged with the query group
\* (run_all, lines 74-75)
Tagged(found, source, group, at) ==
    [i \in 1..Len(found) |->
        [Scraped(found[i], at) EXCEPT !.source = source, !.query_group = group]]

RunAllStart ==
    /\ prod[1].pc = "idle"
    /\ clock < MaxRunAllClock
    /\ prod' = [prod EXCEPT ![1] =
                  [pc |-> "scraper", sources |-> RunAllSources, run_id |-> 0,
                   groups |-> <<>>, total_found |-> 0, total_new |-> 0,
                   started |-> <<>>, raised |-> {}, skipped |-> {}]]
    /\ ret' = [op |-> "run_all_called"]
    /\ UNCHANGED <<jobs, notifications, scrape_runs, clock, ai_calls, delivered,
                   disp, batch, pipe>>

\* lines 46-49: the run of the next scraper is opened
RunOpen ==
    /\ prod[1].pc = "scraper" /\ prod[1].sources # <<>>
    /\ scrape_runs' = start_scrape_run(scrape_runs, Head(prod[1].sources), clock + 1)
    /\ prod' = [prod EXCEPT ![1].pc = "query",
                            ![1].run_id = Len(scrape_runs) + 1,
                            ![1].groups = QueryGroups,
                            ![1].total_found = 0, ![1].total_new = 0,
                            ![1].started = Append(@, Len(scrape_runs) + 1)]
    /\ clock' = clock + 1
    /\ UNCHANGED <<jobs, notifications, ret, ai_calls, delivered, disp, batch, pipe>>

\* lines 63-80: the next query is scraped, its postings are tagged with the
\* group and handed to upsert_jobs
RunQuery ==
    /\ prod[1].pc = "query" /\ prod[1].groups # <<>>
    /\ \E found \in QueryResults :
          \E u \in {upsert_jobs(jobs, Tagged(found, Head(prod[1].sources),
                                             Head(prod[1].groups), clock), clock + 1)} :
              /\ jobs' = u.jobs
              /\ prod' = [prod EXCEPT ![1].groups = Tail(@),
                                      ![1].total_found = @ + Len(found),
                                      ![1].total_new = @ + Len(u.new_jobs)]
              /\ ret' = [op |-> "query", group |-> Head(prod[1].groups),
                         found |-> found, at |-> clock + 1,
                         new_jobs |-> {u.new_jobs[i].id : i \in 1..Len(u.new_jobs)}]
    /\ clock' = clock + 1
    /\ UNCHANGED <<notifications, scrape_runs, ai_calls, delivered, disp, batch, pipe>>

\* lines 65-71: scraper.scrape raises, the query is skipped
RunQueryScrapeRaises ==
    /\ prod[1].pc = "query" /\ prod[1].groups # <<>>
    /\ prod' = [prod EXCEPT ![1].groups = Tail(@),
                            ![1].skipped = @ \cup {prod[1].run_id}]
    /\ clock' = clock + 1
    /\ UNCHANGED <<jobs, notifications, scrape_runs, ret, ai_calls, delivered,
                   disp, batch, pipe>>

\* As RunQueryStoreRaises, but the handler only logs the error.
RunQueryStoreRaisesLogsOnly ==
    /\ prod[1].pc = "query" /\ prod[1].groups # <<>>
    /\ prod' = [prod EXCEPT ![1].pc = "scraper", ![1].sources = Tail(@),
                            ![1].raised = @ \cup {prod[1].run_id}]
    /\ clock' = clock + 1
    /\ UNCHANGED <<jobs, notifications, scrape_runs, ret, ai_calls, delivered,
                   disp, batch, pipe>>

\* lines 78 and 87-89: upsert_jobs raises after some of the postings are
\* stored; the run is marked failed and run_all goes on with the next scraper
RunQueryStoreRaises ==
    /\ prod[1].pc = "query" /\ prod[1].groups # <<>>
    /\ \E found \in QueryResults : \E n \in 0..(Len(found) - 1) :
          jobs' = upsert_jobs(jobs, SubSeq(Tagged(found, Head(prod[1].sources),
                                                  Head(prod[1].groups), clock), 1, n),
                              clock + 1).jobs
    /\ scrape_runs' = fail_scrape_run(scrape_runs, prod[1].run_id, "OperationalError",
                                      clock + 1)
    /\ prod' = [prod EXCEPT ![1].pc = "scraper", ![1].sources = Tail(@),
                            ![1].raised = @ \cup {prod[1].run_id}]
    /\ clock' = clock + 1
    /\ UNCHANGED <<notifications, ret, ai_calls, delivered, disp, batch, pipe>>

\* line 82: every query is processed, the run is completed
RunComplete ==
    /\ prod[1].pc = "query" /\ prod[1].groups = <<>>
    /\ scrape_runs' = complete_scrape_run(scrape_runs, prod[1].run_id,
                                          prod[1].total_found, prod[1].total_new, 0,
                                          clock + 1)
    /\ prod' = [prod EXCEPT ![1].pc = "scraper", ![1].sources = Tail(@)]
    /\ clock' = clock + 1
    /\ UNCHANGED <<jobs, notifications, ret, ai_calls, delivered, disp, batch, pipe>>

\* lines 82 and 87-89: complete_scrape_run raises; the run is marked failed
RunCompleteRaises ==
    /\ prod[1].pc = "query" /\ prod[1].groups = <<>>
    /\ scrape_runs' = fail_scrape_run(scrape_runs, prod[1].run_id, "OperationalError",
                                      clock + 1)
    /\ prod' = [prod EXCEPT ![1].pc = "scraper", ![1].sources = Tail(@),
                            ![1].raised = @ \cup {prod[1].run_id}]
    /\ clock' = clock + 1
    /\ UNCHANGED <<jobs, notifications, ret, ai_calls, delivered, disp, batch, pipe>>

\* line 89: a store operation has raised and fail_scrape_run raises as well;
\* nothing catches it, run_all ends with the exception
RunFailRaises ==
    /\ prod[1].pc = "query"
    /\ ret' = [op |-> "run_all_raised", started |-> prod[1].started,
               raised |-> prod[1].raised \cup {prod[1].run_id},
               skipped |-> prod[1].skipped]
    /\ prod' = [prod EXCEPT ![1] = IdleProducer]
    /\ UNCHANGED <<jobs, notifications, scrape_runs, clock, ai_calls, delivered,
                   disp, batch, pipe>>

\* line 91: run_all returns
RunAllReturn ==
    /\ prod[1].pc = "scraper" /\ prod[1].sources = <<>>
    /\ ret' = [op |-> "run_all_returned", started |-> prod[1].started,
               raised |-> prod[1].raised, skipped |-> prod[1].skipped]
    /\ prod' = [prod EXCEPT ![1] = IdleProducer]
    /\ UNCHANGED <<jobs, notifications, scrape_runs, clock, ai_calls, delivered,
                   disp, batch, pipe>>

RunAllNext ==
    \/ RunAllStart
    \/ clock < MaxRunAllClock
          /\ \/ RunOpen
             \/ RunQuery
             \/ RunQueryScrapeRaises
             \/ RunQueryStoreRaises
             \/ RunComplete
             \/ RunCompleteRaises
    \/ RunFailRaises
    \/ RunAllReturn

SpecRunAll == Init /\ [][RunAllNext]_vars

\* The stored rows of the postings a query found
StoredBefore(js, found) ==
    {SelectIdByUrlHash(js, url_hash(found[k].url)) : k \in 1..Len(found)} \ {0}

\* C38: A stored posting's query-group tag is the group of the query that
\* first found it: no step changes the tag of a stored posting, a posting a
\* query stores as new carries the group of that query, and a posting found
\* again, by a query of whatever group, is not reported as new.
C38_FirstGroupStays ==
    [][/\ \A i \in Ids(jobs) : jobs'[i].query_group = jobs[i].query_group
       /\ (ret'.op = "query" /\ ret' # ret)
             => /\ \A i \in ret'.new_jobs : jobs'[i].query_group = ret'.group
                /\ ret'.new_jobs \cap StoredBefore(jobs, ret'.found) = {}
                /\ StoredBefore(jobs', ret'.found)
                      = StoredBefore(jobs, ret'.found) \cup ret'.new_jobs]_vars

\* Reached: a query of one group has found a posting that is stored with the
\* tag of another group
C38_Witness ==
    /\ ret.op = "query"
    /\ \E i \in StoredBefore(jobs, ret.found) :
          /\ i \notin ret.new_jobs
          /\ jobs[i].query_group # ret.group
          /\ jobs[i].date_updated = ret.at

\* C39: When run_all returns, every scrape run it started is terminal: it is
\* 'completed' when all its queries were processed (those whose scraper call
\* raised are skipped) and 'failed' with an error text when a store operation
\* of the run raised; none is 'running', and every scraper had its run, also
\* after the run of the scraper before it failed.
C39_RunsEndTerminal ==
    ret.op = "run_all_returned"
        => /\ Len(ret.started) = Len(RunAllSources)
           /\ \A k \in 1..Len(ret.started) :
                 LET run == scrape_runs[ret.started[k]]
                 IN  /\ run.source = RunAllSources[k]
                     /\ run.status # "running"
                     /\ ret.started[k] \in ret.raised
                           => run.status = "failed" /\ run.error_message # NULL
                     /\ ret.started[k] \notin ret.raised
                           => run.status = "completed" /\ run.error_message = NULL

\* Reached: run_all has returned; the run of the first scraper failed, the
\* run of the second, one of whose queries raised, is completed with what
\* the other query found
C39_Witness ==
    /\ ret.op = "run_all_returned"
    /\ ret.started[1] \in ret.raised
    /\ ret.started[2] \in ret.skipped \ ret.raised
    /\ scrape_runs[ret.started[2]].status = "completed"
    /\ scrape_runs[ret.started[2]].jobs_found > 0

====
